---- MODULE Spec2Model ----
(***************************************************************************)
(* A model of the gap reconciliation engine of the grid tracker:           *)
(* timestamp normalisation, the two sample tables and their writes, gap    *)
(* detection, gap consolidation, the backfill scheduler, the forecast      *)
(* update, the interpolation of single gaps, collection and gap filling,   *)
(* one pass of the main loop, and two connections writing one instant.     *)
(*                                                                         *)
(* Time is counted in minutes.  A timestamp string is modelled by the      *)
(* minute it names and by its spelling: whether it carries a seconds       *)
(* field and which zone designator ends it.                                *)
(***************************************************************************)
EXTENDS Integers, Sequences, FiniteSets, TLC

VARIABLES
    series,     \* the table the run operates on
    db,         \* table name -> set of stored rows
    last,       \* the last operation and what it returned
    now,        \* the wall clock, in minutes
    bf,         \* the backfill of the series: its position and what it issued
    cycle,      \* run_backfill_cycle: its position over the configured tables
    loop,       \* main_loop: the task it is at and the ticks it has done
    writers     \* the writes in progress on other connections

vars == <<series, db, last, now, bf, cycle, loop, writers>>

----------------------------------------------------------------------------
(* Bounds of the model *)

MaxInstants == 3
MaxWriteInstants == 2
MaxGaps == 3
MaxClock == 2
MaxCycles == 1
MaxInterpolateInstants == 5
MaxTicks == 1
MaxChunkHalfDays == 8
MaxPasses == 3
MaxMigrateRows == 3

----------------------------------------------------------------------------
(* Timestamps: src/app/utils/timestamp_utils.py *)

None == 0 - 1

CARBON == "carbon_intensity_30min_data"
GENERATION == "generation_30min_data"
Tables == {CARBON, GENERATION}

\* The expected sampling grid of the stored series
Instants == {30 * k : k \in 0..(MaxInstants - 1)}

\* The accepted spellings: HH:MM or HH:MM:SS, then Z, +00:00 or nothing
Formats == [sec : BOOLEAN, tz : {"Z", "+00:00", ""}]

Stamp(m, f) == [minute |-> m, sec |-> f.sec, tz |-> f.tz]

RawStamps == {Stamp(m, f) : m \in Instants, f \in Formats}

\* len(timestamp_str): 16 characters up to the minutes, 3 for ":SS"
StrLen(ts) ==
    16 + (IF ts.sec THEN 3 ELSE 0)
       + (CASE ts.tz = "Z" -> 1 [] ts.tz = "+00:00" -> 6 [] OTHER -> 0)

\* dt.strftime('%Y-%m-%dT%H:%MZ')
format_timestamp(dt) == [minute |-> dt, sec |-> FALSE, tz |-> "Z"]

\* datetime.fromisoformat, with or without the Z replaced by +00:00
parse_timestamp(ts) == ts.minute

normalize_timestamp(ts) ==
    LET step == IF ts.tz = "+00:00"
                   \* fromisoformat, then strftime('%Y-%m-%dT%H:%M:%S')
                   THEN [minute |-> parse_timestamp(ts), sec |-> TRUE, tz |-> ""]
                ELSE IF ts.tz = "Z" THEN ts
                ELSE [ts EXCEPT !.tz = "Z"]
    IN  IF StrLen(step) > 17
           THEN [minute |-> step.minute, sec |-> FALSE, tz |-> "Z"]
           ELSE step

\* A text that is no timestamp: its date and time do not parse (minute is
\* None) and it sorts before every timestamp; it ends in Z or holds a '+'
MalformedStamps == {[minute |-> None, sec |-> FALSE, tz |-> z] : z \in {"Z", "+00:00"}}

\* datetime.fromisoformat raising ValueError
parse_raises(ts) == ts.minute = None

\* normalize_timestamp parses only a text that holds a '+':
\* timestamp_utils.py:24-27
normalize_raises(ts) == ts.tz = "+00:00" /\ parse_raises(ts)

\* The rank of what follows the minutes under byte-wise string comparison:
\* "" < "+00:00" < ":00" < ":00+00:00" < ":00Z" < "Z"
SuffixRank(ts) ==
    CASE ~ts.sec /\ ts.tz = ""       -> 0
      [] ~ts.sec /\ ts.tz = "+00:00" -> 1
      [] ts.sec  /\ ts.tz = ""       -> 2
      [] ts.sec  /\ ts.tz = "+00:00" -> 3
      [] ts.sec  /\ ts.tz = "Z"      -> 4
      [] ~ts.sec /\ ts.tz = "Z"      -> 5

\* a <= b on TEXT values, as SQLite compares the timestamp column
TextLeq(a, b) ==
    \/ a.minute < b.minute
    \/ a.minute = b.minute /\ SuffixRank(a) <= SuffixRank(b)

\* SELECT MIN(timestamp) / MAX(timestamp)
MinStamp(rows) ==
    CHOOSE t \in {r.timestamp : r \in rows} :
        \A u \in {r.timestamp : r \in rows} : TextLeq(t, u)

MaxStamp(rows) ==
    CHOOSE t \in {r.timestamp : r \in rows} :
        \A u \in {r.timestamp : r \in rows} : TextLeq(u, t)

----------------------------------------------------------------------------
(* The store: src/app/database.py *)

\* emissions are whole gCO2/kWh, held here in tenths (the precision the
\* interpolator rounds to); the generation quantities are MW with
\* decimals, held in thousandths
Emissions == {100, 200}
Fuel == {1, 2}

CarbonRow(ts, e, f) ==
    [timestamp |-> ts, value |-> e, is_forecast |-> f, is_interpolated |-> FALSE]

GenerationRow(ts, q) ==
    [timestamp |-> ts, value |-> q, is_forecast |-> 0, is_interpolated |-> FALSE]

\* A guard that lets a forecast replace any stored row
ForecastOverActual_never(existing_is_forecast, is_forecast) == FALSE

\* database.py:116, the condition under which the incoming write is dropped
ForecastOverActual(existing_is_forecast, is_forecast) ==
    existing_is_forecast = 0 /\ is_forecast

\* A write that stores the timestamp as it was submitted
WriteKey_raw(timestamp) == timestamp

\* database.py:100 and :282, the key the write looks up and stores under
WriteKey(timestamp) == normalize_timestamp(timestamp)

\* A write that empties the table before it stores its row
insert_carbon_intensity_data_only(rows, timestamp, emissions, is_forecast) ==
    [rows |-> {CarbonRow(WriteKey(timestamp), emissions, IF is_forecast THEN 1 ELSE 0)},
     ret |-> TRUE, path |-> "replaced"]

\* Database.insert_carbon_intensity_data: the rows after the call, what it
\* returned and the branch it took
insert_carbon_intensity_data(rows, timestamp, emissions, is_forecast) ==
    LET normalized_timestamp == WriteKey(timestamp)
        existing == {r \in rows : r.timestamp = normalized_timestamp}
        row == CarbonRow(normalized_timestamp, emissions,
                         IF is_forecast THEN 1 ELSE 0)
    IN  IF normalize_raises(timestamp)
           \* except Exception: return False
           THEN [rows |-> rows, ret |-> FALSE, path |-> "error"]
        ELSE IF \E r \in existing : ForecastOverActual(r.is_forecast, is_forecast)
           THEN [rows |-> rows, ret |-> TRUE, path |-> "skipped"]
        ELSE IF existing # {}
           THEN [rows |-> (rows \ existing) \cup {row}, ret |-> TRUE,
                 path |-> "replaced"]
        ELSE [rows |-> rows \cup {row}, ret |-> TRUE, path |-> "inserted"]

\* Database.insert_generation_data
insert_generation_data(rows, timestamp, quantity) ==
    LET normalized_timestamp == WriteKey(timestamp)
        existing == {r \in rows : r.timestamp = normalized_timestamp}
    IN  IF normalize_raises(timestamp)
           THEN [rows |-> rows, ret |-> FALSE, path |-> "error"]
        ELSE IF existing # {}
           THEN [rows |-> rows, ret |-> TRUE, path |-> "exists"]
           ELSE [rows |-> rows \cup {GenerationRow(normalized_timestamp, quantity)},
                 ret |-> TRUE, path |-> "inserted"]

\* DELETE FROM <table> WHERE timestamp = ?
delete_row(rows, timestamp) == {r \in rows : r.timestamp # timestamp}

----------------------------------------------------------------------------
(* Gap detection: src/app/data_gap_detector.py *)

\* The hardcoded step of the grouping loop, timedelta(minutes=30)
GroupingMinutes == 30

Granularities == {30, 60}

\* list.sort() on datetimes: insertion of x into the ascending sequence s
RECURSIVE InsertTime(_, _)
InsertTime(s, x) ==
    IF s = <<>> THEN <<x>>
    ELSE IF x < Head(s) THEN <<x>> \o s
    ELSE <<Head(s)>> \o InsertTime(Tail(s), x)

RECURSIVE SortTimes(_)
SortTimes(s) ==
    IF s = <<>> THEN <<>>
    ELSE InsertTime(SortTimes(SubSeq(s, 1, Len(s) - 1)), s[Len(s)])

\* DataGapDetector._generate_expected_timestamps
RECURSIVE generate_expected_timestamps(_, _, _)
generate_expected_timestamps(current, end_time, granularity_minutes) ==
    IF current <= end_time
       THEN <<format_timestamp(current)>>
            \o generate_expected_timestamps(current + granularity_minutes,
                                            end_time, granularity_minutes)
       ELSE <<>>

\* The grouping loop of _find_gaps, lines 176-202: i is the index of the
\* missing timestamp looked at, gaps the list built so far
RECURSIVE GroupMissing(_, _, _, _, _)
GroupMissing(missing, i, current_gap_start, current_gap_end, gaps) ==
    IF i > Len(missing)
       THEN Append(gaps, <<current_gap_start, current_gap_end>>)
    ELSE IF missing[i] = current_gap_end + GroupingMinutes
       THEN GroupMissing(missing, i + 1, current_gap_start, missing[i], gaps)
    ELSE GroupMissing(missing, i + 1, missing[i], missing[i],
                      Append(gaps, <<current_gap_start, current_gap_end>>))

\* DataGapDetector._find_gaps: expected_timestamps is a sequence of strings,
\* actual_timestamps the strings the query returned
find_gaps(expected_timestamps, actual_timestamps) ==
    LET normalized_actual_set == {normalize_timestamp(t) : t \in actual_timestamps}
        IsMissing(e) == normalize_timestamp(e) \notin normalized_actual_set
        missing_strings == SelectSeq(expected_timestamps, IsMissing)
        missing_timestamps ==
            SortTimes([i \in 1..Len(missing_strings) |->
                           parse_timestamp(missing_strings[i])])
    IN  IF missing_timestamps = <<>> THEN <<>>
        ELSE GroupMissing(missing_timestamps, 2, missing_timestamps[1],
                          missing_timestamps[1], <<>>)

\* SELECT timestamp ... WHERE timestamp >= ? AND timestamp <= ?, the bounds
\* formatted with strftime('%Y-%m-%dT%H:%MZ')
TimestampsInRange(rows, start_time, end_time) ==
    {r.timestamp : r \in {q \in rows :
        /\ TextLeq(format_timestamp(start_time), q.timestamp)
        /\ TextLeq(q.timestamp, format_timestamp(end_time))}}

\* DataGapDetector.detect_data_gaps: the gap list returned, the return
\* statement that produced it and the window it worked on
detect_data_gaps(rows, granularity_minutes, start_time, end_time) ==
    IF (start_time = None \/ end_time = None) /\ rows = {}
       THEN [ret |-> <<>>, path |-> "no_data", from |-> start_time, to |-> end_time]
    ELSE
       LET s == IF start_time = None THEN parse_timestamp(MinStamp(rows))
                ELSE start_time
           e == IF end_time = None THEN parse_timestamp(MaxStamp(rows))
                ELSE end_time
       IN  IF s >= e
              THEN [ret |-> <<>>, path |-> "invalid_range", from |-> s, to |-> e]
              ELSE [ret |-> find_gaps(
                               generate_expected_timestamps(s, e, granularity_minutes),
                               TimestampsInRange(rows, s, e)),
                    path |-> "ok", from |-> s, to |-> e]

\* DataGapDetector._find_duplicate_timestamps over the timestamps the query
\* of lines 80-86 returned, one per row: a text is a duplicate when an
\* earlier row carries the same text
find_duplicate_timestamps(rows_in_range) ==
    {ts \in {r.timestamp : r \in rows_in_range} :
        Cardinality({r \in rows_in_range : r.timestamp = ts}) > 1}

\* The rows the query of lines 80-86 returns
RowsInRange(rows, start_time, end_time) ==
    {r \in rows : r.timestamp \in TimestampsInRange(rows, start_time, end_time)}

\* The duplicates logged by detect_data_gaps, lines 90-93
logged_duplicates(rows, d) ==
    IF d.path = "ok"
       THEN find_duplicate_timestamps(RowsInRange(rows, d.from, d.to))
       ELSE {}

\* A detection that cleans the table up, dropping the rows whose timestamp
\* carries a seconds field
RowsAfterDetect_purge(rows, gaps) == {r \in rows : ~r.timestamp.sec}

\* detect_data_gaps only issues SELECTs: the rows of the table after it
RowsAfterDetect(rows, gaps) == rows

----------------------------------------------------------------------------
(* The store as a state machine *)

BfIdle == [pc |-> "idle", cycles |-> 0]

\* No run_backfill_cycle is being executed
NoCycle == [pc |-> "none"]

\* main_loop is not running
NoLoop == [pc |-> "none", ticks |-> 0]

\* No write is in progress on another connection
NoWriters == <<>>

\* The instants and spellings the collectors submit
WriteInstants == {30 * k : k \in 0..(MaxWriteInstants - 1)}
WriteStamps == {Stamp(m, f) : m \in WriteInstants, f \in Formats}

\* Database.__init__ on a new database file: both tables exist and are empty
Init ==
    /\ series \in Tables
    /\ db = [t \in Tables |-> {}]
    /\ last = [op |-> "init"]
    /\ now = 0
    /\ bf = BfIdle
    /\ cycle = NoCycle
    /\ loop = NoLoop
    /\ writers = NoWriters

InsertCarbonOf(stamps, emissions, forecasts) ==
    /\ series = CARBON
    /\ \E ts \in stamps, e \in emissions, f \in forecasts :
          LET r == insert_carbon_intensity_data(db[CARBON], ts, e, f)
          IN  /\ db' = [db EXCEPT ![CARBON] = r.rows]
              /\ last' = [op |-> "insert", table |-> CARBON, timestamp |-> ts,
                          value |-> e, is_forecast |-> f,
                          ret |-> r.ret, path |-> r.path]
    /\ UNCHANGED <<series, now, bf, cycle, loop, writers>>

InsertGenerationOf(stamps, quantities) ==
    /\ series = GENERATION
    /\ \E ts \in stamps, q \in quantities :
          LET r == insert_generation_data(db[GENERATION], ts, q)
          IN  /\ db' = [db EXCEPT ![GENERATION] = r.rows]
              /\ last' = [op |-> "insert", table |-> GENERATION, timestamp |-> ts,
                          value |-> q, is_forecast |-> FALSE,
                          ret |-> r.ret, path |-> r.path]
    /\ UNCHANGED <<series, now, bf, cycle, loop, writers>>

InsertCarbon == InsertCarbonOf(WriteStamps, Emissions, BOOLEAN)

InsertGeneration == InsertGenerationOf(WriteStamps, Fuel)

\* The maintenance deletion of one row
DeleteRow ==
    /\ \E r \in db[series] :
          /\ db' = [db EXCEPT ![series] = delete_row(@, r.timestamp)]
          /\ last' = [op |-> "delete", table |-> series, timestamp |-> r.timestamp]
    /\ UNCHANGED <<series, now, bf, cycle, loop, writers>>

NextStore == InsertCarbon \/ InsertGeneration \/ DeleteRow

Spec == Init /\ [][NextStore]_vars

----------------------------------------------------------------------------
(* The detector over a database that already holds rows *)

\* The spellings found in the rows of a database written by earlier
\* versions: with or without the seconds field
ExistingFormats == {f \in Formats : f.tz = "Z"}

\* Database.__init__ on an existing database file (CREATE TABLE IF NOT
\* EXISTS keeps its rows): at most one row per instant, in either spelling
ExistingStore ==
    /\ series \in Tables
    /\ \E present \in SUBSET Instants :
       \E fmt \in [present -> ExistingFormats] :
          db = [t \in Tables |->
                  IF t = series
                     THEN {IF t = CARBON THEN CarbonRow(Stamp(m, fmt[m]), 100, 0)
                           ELSE GenerationRow(Stamp(m, fmt[m]), 1) : m \in present}
                     ELSE {}]

InitExisting ==
    /\ ExistingStore
    /\ last = [op |-> "init"]
    /\ now = 0
    /\ bf = BfIdle
    /\ cycle = NoCycle
    /\ loop = NoLoop
    /\ writers = NoWriters

\* The windows asked for: both bounds given, or both left to the table
Windows == (Instants \X Instants) \cup {<<None, None>>}

Detect ==
    /\ \E g \in Granularities, w \in Windows :
          LET d == detect_data_gaps(db[series], g, w[1], w[2])
          IN  /\ db' = [db EXCEPT ![series] = RowsAfterDetect(@, d.ret)]
              /\ last' = d @@ [op |-> "detect", table |-> series,
                               granularity |-> g,
                               start_time |-> w[1], end_time |-> w[2],
                               duplicates |-> logged_duplicates(db[series], d),
                               \* the same detection as the one just before it
                               again |-> /\ last.op = "detect"
                                         /\ last.granularity = g
                                         /\ last.start_time = w[1]
                                         /\ last.end_time = w[2]]
    /\ UNCHANGED <<series, now, bf, cycle, loop, writers>>

\* The collectors filling the grid with actual samples
FillStamps == {Stamp(m, f) : m \in Instants, f \in ExistingFormats}

FillCarbon == InsertCarbonOf(FillStamps, {100}, {FALSE})

FillGeneration == InsertGenerationOf(FillStamps, {1})

NextDetect == Detect \/ DeleteRow \/ FillCarbon \/ FillGeneration

SpecDetect == InitExisting /\ [][NextDetect]_vars

----------------------------------------------------------------------------
(* Gap consolidation: GridTracker._group_consecutive_gaps, src/app/main.py *)

\* sorted(gaps, key=lambda x: x[0]): stable, by start
RECURSIVE InsertGap(_, _)
InsertGap(s, x) ==
    IF s = <<>> THEN <<x>>
    ELSE IF x[1] < Head(s)[1] THEN <<x>> \o s
    ELSE <<Head(s)>> \o InsertGap(Tail(s), x)

RECURSIVE SortGaps(_)
SortGaps(s) ==
    IF s = <<>> THEN <<>>
    ELSE InsertGap(SortGaps(SubSeq(s, 1, Len(s) - 1)), s[Len(s)])

\* The loop of lines 516-530 over sorted_gaps[1:]
RECURSIVE GroupRanges(_, _, _, _, _, _)
GroupRanges(sorted_gaps, i, current_start, current_end, gap_ranges, granularity_minutes) ==
    IF i > Len(sorted_gaps)
       THEN Append(gap_ranges, <<current_start, current_end>>)
    ELSE IF sorted_gaps[i][1] = current_end + granularity_minutes
       THEN GroupRanges(sorted_gaps, i + 1, current_start, sorted_gaps[i][2],
                        gap_ranges, granularity_minutes)
    ELSE GroupRanges(sorted_gaps, i + 1, sorted_gaps[i][1], sorted_gaps[i][2],
                     Append(gap_ranges, <<current_start, current_end>>),
                     granularity_minutes)

group_consecutive_gaps(gaps, granularity_minutes) ==
    IF gaps = <<>> THEN <<>>
    ELSE LET sorted_gaps == SortGaps(gaps)
         IN  GroupRanges(sorted_gaps, 2, sorted_gaps[1][1], sorted_gaps[1][2],
                         <<>>, granularity_minutes)

\* The gap lists handed to the consolidator: any order, overlaps allowed
Gaps == {<<a, b>> : a \in Instants, b \in Instants} \cap
        {g \in Instants \X Instants : g[1] <= g[2]}

RECURSIVE GapListsOf(_)
GapListsOf(n) ==
    IF n = 0 THEN {<<>>}
    ELSE GapListsOf(n - 1) \cup
         {Append(l, g) : l \in {k \in GapListsOf(n - 1) : Len(k) = n - 1},
                         g \in Gaps}

GapLists == GapListsOf(MaxGaps)

\* The caller's state just before the call: a gap list and the interval
InitConsolidate ==
    /\ series \in Tables
    /\ db = [t \in Tables |-> {}]
    /\ now = 0
    /\ bf = BfIdle
    /\ cycle = NoCycle
    /\ loop = NoLoop
    /\ writers = NoWriters
    /\ \E gaps \in GapLists, g \in Granularities :
          last = [op |-> "gaps", gaps |-> gaps, granularity |-> g]

Consolidate ==
    /\ last.op = "gaps"
    /\ last' = [op |-> "consolidate", gaps |-> last.gaps,
                granularity |-> last.granularity,
                ret |-> group_consecutive_gaps(last.gaps, last.granularity)]
    /\ UNCHANGED <<series, db, now, bf, cycle, loop, writers>>

SpecConsolidate == InitConsolidate /\ [][Consolidate]_vars

----------------------------------------------------------------------------
(* The remote collaborators: src/app/carbon_intensity_api.py and
   src/app/elexon_bm_api.py *)

\* max_days=5 at the call of _limit_date_range
ChunkDays == 5

Day == 24 * 60

\* What the remote service does with the requests of one fetch
Answers == {"samples", "nothing", "http_error"}

\* The half-hourly samples the service holds for a range: here the last
\* two grid instants of the range
SamplesIn(start_time, end_time) ==
    LET top == end_time - (end_time % 30)
    IN  SelectSeq(<<top - 30, top>>, LAMBDA t : t >= start_time)

\* What the carbon-intensity service may also answer: entries whose
\* 'actual' is still null, or only the entry of the later half hour
CarbonAnswers == Answers \cup {"forecasts", "neighbour"}

\* The 'data' entries of the service's response: the 'to' instant and the
\* intensity, whose 'actual' is null (None) until it is known
intensity_entries(start_time, end_time, answer) ==
    LET at == SamplesIn(start_time, end_time)
    IN  IF answer = "samples"
           THEN [i \in DOMAIN at |-> [to |-> at[i], actual |-> 200, forecast |-> 100]]
        ELSE IF answer = "forecasts"
           THEN [i \in DOMAIN at |-> [to |-> at[i], actual |-> None, forecast |-> 100]]
        ELSE IF answer = "neighbour" /\ at # <<>>
           THEN <<[to |-> at[Len(at)], actual |-> 200, forecast |-> 100]>>
        ELSE <<>>

\* CarbonIntensityAPI.get_intensity_data: one request; a point per entry
\* whose emissions are not None, with the 'to' stamp (no seconds) and the
\* emissions, and no 'is_forecast' key; any exception gives []
get_intensity_data(start_time, end_time, answer) ==
    LET end == IF start_time = end_time THEN end_time + 1 ELSE end_time
        entries == SelectSeq(intensity_entries(start_time, end, answer),
                             LAMBDA entry : entry.actual # None)
    IN  [requests |-> 1,
         points |-> [i \in DOMAIN entries |->
                       [timestamp |-> format_timestamp(entries[i].to),
                        value |-> entries[i].actual]]]

\* A client that sends the whole range as one request
limit_date_range_whole(start_time, end_time, max_days) == <<<<start_time, end_time>>>>

\* ElexonBMAPI._limit_date_range
RECURSIVE ChunksFrom(_, _, _)
ChunksFrom(current_start, end_time, max_days) ==
    IF current_start < end_time
       THEN LET current_end == IF current_start + max_days * Day < end_time
                                  THEN current_start + max_days * Day
                                  ELSE end_time
            IN  <<<<current_start, current_end>>>> \o
                ChunksFrom(current_end, end_time, max_days)
       ELSE <<>>

limit_date_range(start_time, end_time, max_days) ==
    ChunksFrom(start_time, end_time, max_days) \o
    (IF start_time = end_time THEN <<<<start_time, end_time>>>> ELSE <<>>)

\* ElexonBMAPI.get_generation_data: one request per chunk, startTime stamps
\* with seconds; a failing request (here the failed-th one) gives []
get_generation_data(start_time, end_time, answer, failed) ==
    LET date_chunks == limit_date_range(start_time, end_time, ChunkDays)
    IN  [requests |-> IF answer = "http_error" THEN failed ELSE Len(date_chunks),
         points |-> IF answer = "samples"
                       THEN [i \in DOMAIN SamplesIn(start_time, end_time) |->
                               [timestamp |-> [minute |-> SamplesIn(start_time, end_time)[i],
                                               sec |-> TRUE, tz |-> "Z"],
                                value |-> 1]]
                       ELSE <<>>]

----------------------------------------------------------------------------
(* Backfill: src/app/utils/backfill_utils.py *)

\* config: the shape of the entries of Config.BACKFILL_CONFIG
BackfillConfigs ==
    [target_oldest_days : {1, 2}, hours_per_call : {1, 24, 7 * 24},
     max_calls_per_cycle : {1, 2}]

\* The clock readings of datetime.now(timezone.utc)
Clock == {Day + 15 * k : k \in 0..MaxClock}

Min(a, b) == IF a < b THEN a ELSE b

\* The loop over data_points of one call: lines 99-129
\* point.get('is_forecast', default)
point_is_forecast(point, default) ==
    IF "is_forecast" \in DOMAIN point THEN point.is_forecast ELSE default

\* The write of one point by db_insert_function; a store error (the
\* database locked, the disk full) is caught in the write function, which
\* then returns False: database.py:139-141 and :328-330
store_point(table_name, rows, point, store_error) ==
    IF store_error THEN [rows |-> rows, ret |-> FALSE, path |-> "error"]
    ELSE IF table_name = CARBON
       THEN insert_carbon_intensity_data(rows, point.timestamp, point.value,
                                         point_is_forecast(point, FALSE))
       ELSE insert_generation_data(rows, point.timestamp, point.value)

\* A count that takes every write for a success
inserted_after_always(success, inserted_count) == inserted_count + 1

\* if success: inserted_count += 1
inserted_after(success, inserted_count) ==
    IF success THEN inserted_count + 1 ELSE inserted_count

\* errors: the indices of the points whose write meets a store error;
\* writes: what each write returned
RECURSIVE InsertPoints(_, _, _, _, _, _, _)
InsertPoints(table_name, rows, data_points, i, inserted_count, errors, writes) ==
    IF i > Len(data_points)
       THEN [rows |-> rows, inserted_count |-> inserted_count, writes |-> writes]
    ELSE LET r == store_point(table_name, rows, data_points[i], i \in errors)
         IN  InsertPoints(table_name, r.rows, data_points, i + 1,
                          inserted_after(r.ret, inserted_count), errors,
                          Append(writes, r.ret))

\* int((oldest_timestamp - target_oldest_time).total_seconds() / 3600)
hours_to_backfill(oldest_timestamp, target_oldest_time) ==
    (oldest_timestamp - target_oldest_time) \div 60

\* The number of calls without the cap of max_calls_per_cycle
calls_needed_uncapped(hours, hours_per_call, max_calls) ==
    (hours + hours_per_call - 1) \div hours_per_call

calls_needed(hours, hours_per_call, max_calls) ==
    Min(max_calls, (hours + hours_per_call - 1) \div hours_per_call)

\* Time passes between two readings of the clock
Tick ==
    /\ \E t \in Clock : t > now /\ now' = t
    /\ UNCHANGED <<series, db, last, bf, cycle, loop, writers>>

\* A target counted in weeks instead of days
target_oldest_time_weeks(current_time, target_oldest_days) ==
    current_time - target_oldest_days * 7 * Day

\* datetime.now(timezone.utc) - timedelta(days=config['target_oldest_days'])
target_oldest_time(current_time, target_oldest_days) ==
    current_time - target_oldest_days * Day

\* backfill_table_data up to the oldest timestamp: lines 31-54; get_table_stats
\* may report an error, and the function then returns False
BackfillStatsOf(configs) ==
    /\ bf.pc \in {"idle", "done"}
    /\ bf.cycles < MaxCycles
    /\ cycle.pc = "none" \/ (cycle.pc = "table" /\ bf.pc = "idle")
    /\ \E config \in configs, stats_error \in BOOLEAN :
          bf' = [pc |-> IF stats_error THEN "done" ELSE "stats",
                 cycles |-> bf.cycles + 1, config |-> config,
                 has_data |-> db[series] # {},
                 current_time |-> now,
                 oldest |-> IF db[series] = {} THEN now
                            ELSE parse_timestamp(MinStamp(db[series])),
                 target |-> None, calls_needed |-> 0, current_start |-> None,
                 call_num |-> 0, windows |-> <<>>, requests |-> 0,
                 total_inserted |-> 0, failed |-> FALSE, ret |-> ~stats_error]
    /\ last' = [op |-> "backfill", table |-> series]
    /\ UNCHANGED <<series, db, now, cycle, loop, writers>>

BackfillStats == BackfillStatsOf(BackfillConfigs)

\* lines 56-77: the target, the satisfied check and the number of calls
BackfillPlan ==
    /\ bf.pc = "stats"
    /\ LET target == target_oldest_time(now, bf.config.target_oldest_days)
           hours == hours_to_backfill(bf.oldest, target)
           calls == IF bf.oldest <= target THEN 0
                    ELSE calls_needed(hours, bf.config.hours_per_call,
                                      bf.config.max_calls_per_cycle)
       IN  bf' = [bf EXCEPT
                    !.pc = IF calls = 0 THEN "done" ELSE "calls",
                    !.target = target,
                    !.calls_needed = calls,
                    !.current_start = bf.oldest - bf.config.hours_per_call * 60 * calls]
    /\ UNCHANGED <<series, db, last, now, cycle, loop, writers>>

\* One iteration of the loop of lines 79-136; error_sets: the store errors
\* the writes of the iteration may meet
BackfillCallOf(error_sets) ==
    /\ bf.pc = "calls"
    /\ LET call_start == bf.current_start + bf.config.hours_per_call * 60 * bf.call_num
           end == call_start + bf.config.hours_per_call * 60
           call_end == IF end >= bf.oldest THEN bf.oldest ELSE end
       IN  \E answer \in Answers \cup {"raises"}, failed \in 1..2, errors \in error_sets :
              LET fetched == IF series = CARBON
                                THEN get_intensity_data(call_start, call_end, answer)
                                ELSE get_generation_data(call_start, call_end, answer,
                                        Min(failed, Len(limit_date_range(call_start, call_end, ChunkDays))))
                  stored == InsertPoints(series, db[series], fetched.points, 1, 0, errors, <<>>)
                  raised == answer = "raises"
              IN  /\ db' = [db EXCEPT ![series] = IF raised THEN @ ELSE stored.rows]
                  /\ bf' = [bf EXCEPT
                              !.windows = Append(@, <<call_start, call_end>>),
                              !.requests = IF raised THEN @ ELSE @ + fetched.requests,
                              !.total_inserted = IF raised THEN @ ELSE @ + stored.inserted_count,
                              !.call_num = @ + 1,
                              !.failed = raised,
                              !.ret = ~raised,
                              !.pc = IF raised \/ bf.call_num + 1 = bf.calls_needed
                                        THEN "done" ELSE "calls"]
                  /\ last' = [op |-> "fetch", table |-> series, start_time |-> call_start,
                              end_time |-> call_end, answer |-> answer,
                              points |-> IF raised THEN <<>> ELSE fetched.points,
                              before |-> db[series],
                              calls |-> <<[start_time |-> call_start,
                                           end_time |-> call_end,
                                           answer |-> answer,
                                           points |-> IF raised THEN <<>>
                                                      ELSE fetched.points,
                                           errors |-> errors,
                                           writes |-> IF raised THEN <<>>
                                                      ELSE stored.writes,
                                           inserted_count |-> IF raised THEN 0
                                                              ELSE stored.inserted_count]>>]
    /\ UNCHANGED <<series, now, cycle, loop, writers>>

BackfillCall == BackfillCallOf({{}})

\* The table as the scheduler finds it, at the first clock reading
InitBackfill ==
    /\ ExistingStore
    /\ last = [op |-> "init"]
    /\ now = Day
    /\ bf = BfIdle
    /\ cycle = NoCycle
    /\ loop = NoLoop
    /\ writers = NoWriters

NextBackfill == BackfillStats \/ BackfillPlan \/ BackfillCall \/ Tick

SpecBackfill == InitBackfill /\ [][NextBackfill]_vars

----------------------------------------------------------------------------
(* run_backfill_cycle: src/app/utils/backfill_utils.py *)

\* A cycle that stops at the first table that failed
AfterFailure_abort(pending) == <<>>

\* 'continue', or falling through to the next iteration, after a failure
AfterFailure(pending) == Tail(pending)

\* The call of run_backfill_cycle: the tables of backfill_configs in their
\* order, and the tables the two function mappings hold
InitCycle ==
    /\ series = CARBON
    /\ \E present \in SUBSET Tables :
          db = [t \in Tables |->
                  IF t \in present
                     THEN {IF t = CARBON
                              THEN CarbonRow(format_timestamp(Day - 60), 100, 0)
                              ELSE GenerationRow(format_timestamp(Day - 60), 1)}
                     ELSE {}]
    /\ last = [op |-> "init"]
    /\ now = Day
    /\ bf = BfIdle
    /\ \E api_functions \in SUBSET Tables, db_insert_functions \in SUBSET Tables :
          cycle = [pc |-> "loop", pending |-> <<CARBON, GENERATION>>,
                   api_functions |-> api_functions,
                   db_insert_functions |-> db_insert_functions,
                   started |-> {}, results |-> <<>>, success |-> TRUE]
    /\ loop = NoLoop
    /\ writers = NoWriters

\* One iteration up to the call of backfill_table_data: lines 164-181
CycleTable ==
    /\ cycle.pc = "loop"
    /\ cycle.pending # <<>>
    /\ LET table_name == Head(cycle.pending)
       IN  IF table_name \notin cycle.api_functions
              THEN /\ cycle' = [cycle EXCEPT
                                  !.success = FALSE,
                                  !.results = Append(@, [table |-> table_name, ok |-> FALSE,
                                                         why |-> "no_api"]),
                                  !.pending = AfterFailure(@)]
                   /\ UNCHANGED <<series, bf>>
           ELSE IF table_name \notin cycle.db_insert_functions
              THEN /\ cycle' = [cycle EXCEPT
                                  !.success = FALSE,
                                  !.results = Append(@, [table |-> table_name, ok |-> FALSE,
                                                         why |-> "no_insert"]),
                                  !.pending = AfterFailure(@)]
                   /\ UNCHANGED <<series, bf>>
           ELSE /\ cycle' = [cycle EXCEPT !.pc = "table",
                                          !.started = @ \cup {table_name}]
                /\ series' = table_name
                /\ bf' = BfIdle
    /\ UNCHANGED <<db, last, now, loop, writers>>

\* backfill_table_data returned: lines 183-185
CycleTableReturn ==
    /\ cycle.pc = "table"
    /\ bf.pc = "done"
    /\ cycle' = [cycle EXCEPT
                   !.pc = "loop",
                   !.success = @ /\ bf.ret,
                   !.results = Append(@, [table |-> series, ok |-> bf.ret,
                                          why |-> "backfill"]),
                   !.pending = IF bf.ret THEN Tail(@) ELSE AfterFailure(@)]
    /\ UNCHANGED <<series, db, last, now, bf, loop, writers>>

\* lines 187-191
CycleReturn ==
    /\ cycle.pc = "loop"
    /\ cycle.pending = <<>>
    /\ cycle' = [cycle EXCEPT !.pc = "done"] @@ [ret |-> cycle.success]
    /\ UNCHANGED <<series, db, last, now, bf, loop, writers>>

NextCycle ==
    \/ CycleTable
    \/ CycleTableReturn
    \/ CycleReturn
    \/ BackfillStats
    \/ BackfillPlan
    \/ BackfillCall

SpecCycle == InitCycle /\ [][NextCycle]_vars

----------------------------------------------------------------------------
(* Forecast update: GridTracker.run_forecast_update, src/app/main.py, and
   Database.get_recent_forecast_records, src/app/database.py *)

\* get_recent_forecast_records(hours=24)
LookbackHours == 24

\* (current_time - record_time).days > 365
StaleDays == 365

DateOf(minute) == minute \div Day

\* timestamp > datetime('now', '-N hours') on TEXT: datetime() gives
\* 'YYYY-MM-DD HH:MM:SS', the stored text has 'T' after the date, and
\* ' ' < 'T', so only the dates decide
sql_after_datetime(timestamp, cutoff) == DateOf(timestamp.minute) >= DateOf(cutoff)

\* ORDER BY timestamp DESC
RECURSIVE StampsDesc(_)
StampsDesc(stamps) ==
    IF stamps = {} THEN <<>>
    ELSE LET top == CHOOSE t \in stamps : \A u \in stamps : TextLeq(u, t)
         IN  <<top>> \o StampsDesc(stamps \ {top})

get_recent_forecast_records(rows, current_time, hours) ==
    StampsDesc({r.timestamp : r \in
                  {x \in rows : /\ x.is_forecast = 1
                                /\ sql_after_datetime(x.timestamp,
                                                      current_time - hours * 60)}})

\* A match that takes any point of the response
PromotionMatch_any(point, timestamp_str) == TRUE

\* point['timestamp'] == timestamp_str and not point.get('is_forecast', True)
PromotionMatch(point, timestamp_str) ==
    point.timestamp = timestamp_str /\ ~point_is_forecast(point, TRUE)

\* The first point of the response the loop of lines 574-586 stops at
RECURSIVE FirstMatch(_, _, _)
FirstMatch(data_points, i, timestamp_str) ==
    IF i > Len(data_points) THEN 0
    ELSE IF PromotionMatch(data_points[i], timestamp_str) THEN i
    ELSE FirstMatch(data_points, i + 1, timestamp_str)

\* The loop over data_points, lines 572-586: the first matching point is
\* written as an actual and the loop stops
promote_record(rows, data_points, timestamp_str) ==
    LET k == FirstMatch(data_points, 1, timestamp_str)
    IN  IF k = 0 THEN [rows |-> rows, ret |-> FALSE]
        ELSE insert_carbon_intensity_data(rows, data_points[k].timestamp,
                                          data_points[k].value, FALSE)

\* The loop over forecast_records: lines 552-590
RECURSIVE UpdateRecords(_, _, _, _, _, _, _)
UpdateRecords(rows, forecast_records, i, answers, current_time, updated_count, fetched) ==
    IF i > Len(forecast_records)
       THEN [rows |-> rows, updated_count |-> updated_count, fetched |-> fetched]
    ELSE
       LET timestamp_str == forecast_records[i]
           record_time == parse_timestamp(timestamp_str)
       IN  IF (current_time - record_time) \div Day > StaleDays
              THEN UpdateRecords(rows, forecast_records, i + 1, answers, current_time,
                                 updated_count, fetched)
           ELSE
              LET data_points == get_intensity_data(record_time, record_time + 30,
                                                    answers[i]).points
                  r == promote_record(rows, data_points, timestamp_str)
              IN  UpdateRecords(r.rows, forecast_records, i + 1, answers, current_time,
                                IF r.ret THEN updated_count + 1 ELSE updated_count,
                                Append(fetched, [timestamp |-> timestamp_str,
                                                 answer |-> answers[i]]))

\* The clock and the half hours around it: two recent ones, midnight of
\* the day before (25 hours ago) and the half hour before that midnight
ReconcileNow == 2 * Day + 60

ReconcileInstants == {ReconcileNow - 60, ReconcileNow - 30, Day, Day - 30}

\* The carbon-intensity table as the collectors left it: per instant no
\* row, an actual or a forecast
InitReconcile ==
    /\ series = CARBON
    /\ \E kind \in [ReconcileInstants -> {"absent", "actual", "forecast"}] :
          db = [t \in Tables |->
                  IF t = CARBON
                     THEN {CarbonRow(format_timestamp(m),
                                     100, IF kind[m] = "forecast" THEN 1 ELSE 0) :
                             m \in {x \in ReconcileInstants : kind[x] # "absent"}}
                     ELSE {}]
    /\ last = [op |-> "init"]
    /\ now = ReconcileNow
    /\ bf = BfIdle
    /\ cycle = NoCycle
    /\ loop = NoLoop
    /\ writers = NoWriters

ForecastUpdateOf ==
    /\ series = CARBON
    /\ LET forecast_records ==
               get_recent_forecast_records(db[CARBON], now, LookbackHours)
       IN  \E answers \in [1..Len(forecast_records) -> CarbonAnswers] :
              LET u == UpdateRecords(db[CARBON], forecast_records, 1, answers, now,
                                     0, <<>>)
              IN  /\ db' = [db EXCEPT ![CARBON] = u.rows]
                  /\ last' = [op |-> "forecast_update", before |-> db[CARBON],
                              records |-> forecast_records, fetched |-> u.fetched,
                              updated_count |-> u.updated_count, ret |-> TRUE]
    /\ UNCHANGED <<series, now, bf, cycle, writers>>

\* The collector writing the half hours around the clock
ReconcileCollect ==
    InsertCarbonOf({format_timestamp(m) : m \in ReconcileInstants}, {100}, BOOLEAN)

\* GridTracker.run_forecast_update
ForecastUpdate == ForecastUpdateOf /\ UNCHANGED loop

NextReconcile == ForecastUpdate \/ ReconcileCollect

SpecReconcile == InitReconcile /\ [][NextReconcile]_vars

----------------------------------------------------------------------------
(* Interpolation of single-point gaps: src/interpolate_single_gaps.py *)

\* find_single_point_gaps: the gaps of the whole table with start == end
find_single_point_gaps(rows, granularity_minutes) ==
    SelectSeq(detect_data_gaps(rows, granularity_minutes, None, None).ret,
              LAMBDA gap : gap[1] = gap[2])

\* A lookup that takes the nearest rows on each side of the gap
get_surrounding_data_nearest(rows, gap_time, granularity_minutes) ==
    [before |-> {r \in rows : parse_timestamp(r.timestamp) < gap_time},
     after  |-> {r \in rows : parse_timestamp(r.timestamp) > gap_time}]

\* get_surrounding_data: WHERE timestamp = ? with the time formatted
\* '%Y-%m-%dT%H:%MZ'; the row found, or none
get_surrounding_data(rows, gap_time, granularity_minutes) ==
    [before |-> {r \in rows : r.timestamp = format_timestamp(gap_time - granularity_minutes)},
     after  |-> {r \in rows : r.timestamp = format_timestamp(gap_time + granularity_minutes)}]

\* round(x, 1) and round(x, 3) of x = num / den, in the unit of the stored
\* values; a float that lies halfway goes to either neighbour
round_to_unit(num, den, up) ==
    LET q == num \div den
        r == num % den
    IN  IF 2 * r < den THEN q
        ELSE IF 2 * r > den THEN q + 1
        ELSE IF up THEN q + 1 ELSE q

\* An interpolation that copies the value before the gap
interpolate_value_before(before_val, after_val, gap_diff, total_diff, up) == before_val

\* before + (after - before) * factor, factor = gap_diff / total_diff, rounded
interpolate_value(before_val, after_val, gap_diff, total_diff, up) ==
    round_to_unit(before_val * total_diff + (after_val - before_val) * gap_diff,
                  total_diff, up)

\* A row written a quarter of an hour before the gap
gap_timestamp_early(gap_time) == format_timestamp(gap_time - 15)

\* gap_time.strftime('%Y-%m-%dT%H:%MZ')
gap_timestamp(gap_time) == format_timestamp(gap_time)

\* interpolate_carbon_intensity and interpolate_generation
interpolate_point(table_name, before_data, after_data, gap_time, up) ==
    LET before_time == parse_timestamp(before_data.timestamp)
        after_time == parse_timestamp(after_data.timestamp)
    IN  [timestamp |-> gap_timestamp(gap_time),
         value |-> interpolate_value(before_data.value, after_data.value,
                                     gap_time - before_time, after_time - before_time, up),
         is_forecast |-> IF /\ table_name = CARBON
                            /\ (before_data.is_forecast = 1 \/ after_data.is_forecast = 1)
                            THEN 1 ELSE 0,
         is_interpolated |-> TRUE]

\* insert_interpolated_data: a plain INSERT; the UNIQUE timestamp makes it
\* fail when the normalized timestamp is already stored
insert_interpolated_data(rows, data) ==
    LET normalized_timestamp == normalize_timestamp(data.timestamp)
    IN  IF \E r \in rows : r.timestamp = normalized_timestamp
           THEN [rows |-> rows, ret |-> FALSE]
           ELSE [rows |-> rows \cup {[data EXCEPT !.timestamp = normalized_timestamp]},
                 ret |-> TRUE]

\* The loop of interpolate_table_gaps over single_gaps: lines 361-390
RECURSIVE FillSingleGaps(_, _, _, _, _, _, _, _)
FillSingleGaps(table_name, rows, single_gaps, i, granularity_minutes, up, filled_count, filled) ==
    IF i > Len(single_gaps)
       THEN [rows |-> rows, filled_count |-> filled_count, filled |-> filled]
    ELSE
       LET gap_start == single_gaps[i][1]
           around == get_surrounding_data(rows, gap_start, granularity_minutes)
       IN  IF around.before = {} \/ around.after = {}
              THEN FillSingleGaps(table_name, rows, single_gaps, i + 1,
                                  granularity_minutes, up, filled_count, filled)
           ELSE
              LET data == interpolate_point(table_name,
                                            CHOOSE r \in around.before : TRUE,
                                            CHOOSE r \in around.after : TRUE,
                                            gap_start, up)
                  w == insert_interpolated_data(rows, data)
              IN  FillSingleGaps(table_name, w.rows, single_gaps, i + 1,
                                 granularity_minutes, up,
                                 IF w.ret THEN filled_count + 1 ELSE filled_count,
                                 IF w.ret THEN Append(filled, gap_start) ELSE filled)

interpolate_table_gaps(table_name, rows, granularity_minutes, up) ==
    FillSingleGaps(table_name, rows,
                   find_single_point_gaps(rows, granularity_minutes), 1,
                   granularity_minutes, up, 0, <<>>)

\* The half hours of the table the interpolator runs over
InterpolateInstants == {30 * k : k \in 0..(MaxInterpolateInstants - 1)}

\* What a table holds at one instant: nothing, or a row in one of the two
\* stored spellings
CarbonCells ==
    {[sec |-> FALSE, value |-> 100, is_forecast |-> 0],
     [sec |-> FALSE, value |-> 200, is_forecast |-> 1],
     [sec |-> TRUE, value |-> 100, is_forecast |-> 0]}

GenerationCells ==
    {[sec |-> FALSE, value |-> 1, is_forecast |-> 0],
     [sec |-> FALSE, value |-> 2, is_forecast |-> 0],
     [sec |-> TRUE, value |-> 1, is_forecast |-> 0]}

InitInterpolate ==
    /\ series \in Tables
    /\ \E present \in SUBSET InterpolateInstants :
       \E cell \in [present -> IF series = CARBON THEN CarbonCells ELSE GenerationCells] :
          db = [t \in Tables |->
                  IF t = series
                     THEN {[timestamp |-> [minute |-> m, sec |-> cell[m].sec, tz |-> "Z"],
                            value |-> cell[m].value,
                            is_forecast |-> cell[m].is_forecast,
                            is_interpolated |-> FALSE] : m \in present}
                     ELSE {}]
    /\ last = [op |-> "init"]
    /\ now = 0
    /\ bf = BfIdle
    /\ cycle = NoCycle
    /\ loop = NoLoop
    /\ writers = NoWriters

\* GapInterpolator.interpolate_table_gaps on the table
Interpolate ==
    /\ \E g \in Granularities, up \in BOOLEAN :
          LET r == interpolate_table_gaps(series, db[series], g, up)
          IN  /\ db' = [db EXCEPT ![series] = r.rows]
              /\ last' = [op |-> "interpolate", table |-> series, granularity |-> g,
                          before |-> db[series],
                          gaps |-> detect_data_gaps(db[series], g, None, None).ret,
                          filled |-> r.filled, filled_count |-> r.filled_count,
                          \* the same run as the one just before it
                          again |-> last.op = "interpolate" /\ last.granularity = g]
    /\ UNCHANGED <<series, now, bf, cycle, loop, writers>>

SpecInterpolate == InitInterpolate /\ [][Interpolate]_vars

----------------------------------------------------------------------------
(* Collection and gap filling: GridTracker.collect_carbon_intensity_data,
   collect_elexon_bm_data, fill_data_gaps and fill_generation_gaps,
   src/app/main.py *)

\* What the remote service may answer to a collector: also samples of
\* which the first carries a text that is no timestamp
CollectAnswers == Answers \cup {"malformed_z", "malformed_plus"}

garble(points, tz) ==
    IF points = <<>> THEN <<>>
    ELSE [points EXCEPT ![1].timestamp = [minute |-> None, sec |-> FALSE, tz |-> tz]]

\* self.carbon_intensity_api.get_intensity_data(start_time, end_time) or
\* self.elexon_bm_api.get_generation_data(start_time, end_time)
fetch_points(table_name, start_time, end_time, answer) ==
    LET a == IF answer \in Answers THEN answer ELSE "samples"
        fetched == IF table_name = CARBON
                      THEN get_intensity_data(start_time, end_time, a)
                      ELSE get_generation_data(start_time, end_time, a, 1)
    IN  CASE answer = "malformed_z" -> garble(fetched.points, "Z")
          [] answer = "malformed_plus" -> garble(fetched.points, "+00:00")
          [] OTHER -> fetched.points

\* The age under which the latest sample is fresh: 1800 s for the carbon
\* intensity, 7200 s for the generation
fresh_minutes(table_name) == IF table_name = CARBON THEN 30 ELSE 120

\* The hours fetched when there is no latest sample to start from
fallback_hours(table_name) == IF table_name = CARBON THEN 6 ELSE 24

\* The window of a collection: lines 112-154 and 189-231.  The latest row
\* is that of ORDER BY timestamp DESC LIMIT 1
collect_window(table_name, rows, current_time) ==
    LET fallback == [fetch |-> TRUE,
                     start_time |-> current_time - fallback_hours(table_name) * 60,
                     end_time |-> current_time]
    IN  IF rows = {} THEN fallback
        ELSE LET latest_timestamp_str == MaxStamp(rows)
             IN  IF parse_raises(latest_timestamp_str) THEN fallback
                 ELSE IF current_time - parse_timestamp(latest_timestamp_str)
                            < fresh_minutes(table_name)
                    THEN [fetch |-> FALSE, start_time |-> None, end_time |-> None]
                 ELSE [fetch |-> TRUE,
                       start_time |-> parse_timestamp(latest_timestamp_str),
                       end_time |-> current_time]

\* if not data_points: return False; return True after the writes
collect_outcome(data_points) == data_points # <<>>

\* collect_carbon_intensity_data or collect_elexon_bm_data, by the series
CollectOf(answer_set) ==
    /\ bf.pc \in {"idle", "done"}
    /\ cycle.pc = "none"
    /\ LET w == collect_window(series, db[series], now)
       IN  IF ~w.fetch
              THEN /\ last' = [op |-> "collect", table |-> series, fetched |-> FALSE,
                               before |-> db[series], ret |-> TRUE, raised |-> FALSE]
                   /\ db' = db
              ELSE \E answer \in answer_set, errors \in SUBSET {1} :
                     LET data_points == fetch_points(series, w.start_time,
                                                     w.end_time, answer)
                         stored == InsertPoints(series, db[series], data_points,
                                                1, 0, errors, <<>>)
                     IN  /\ db' = [db EXCEPT ![series] = stored.rows]
                         /\ last' = [op |-> "collect", table |-> series,
                                     fetched |-> TRUE, before |-> db[series],
                                     calls |-> <<[start_time |-> w.start_time,
                                                  end_time |-> w.end_time,
                                                  answer |-> answer,
                                                  points |-> data_points,
                                                  errors |-> errors,
                                                  writes |-> stored.writes,
                                                  inserted_count |-> stored.inserted_count]>>,
                                     ret |-> collect_outcome(data_points),
                                     raised |-> FALSE]
    /\ UNCHANGED <<series, now, bf, cycle, writers>>

\* A loop that gives up at the first range whose fetch brought nothing
RECURSIVE FillRanges_stop(_, _, _, _, _, _, _, _)
FillRanges_stop(table_name, rows, gap_ranges, i, answers, errors, total_filled, calls) ==
    IF i > Len(gap_ranges)
       THEN [rows |-> rows, total_filled |-> total_filled, calls |-> calls]
    ELSE LET data_points == fetch_points(table_name, gap_ranges[i][1],
                                         gap_ranges[i][2], answers[i])
             stored == InsertPoints(table_name, rows, data_points, 1, 0,
                                    errors, <<>>)
             issued == Append(calls, [start_time |-> gap_ranges[i][1],
                                      end_time |-> gap_ranges[i][2],
                                      answer |-> answers[i],
                                      points |-> data_points,
                                      errors |-> errors,
                                      writes |-> stored.writes,
                                      inserted_count |-> stored.inserted_count])
         IN  IF data_points = <<>>
                THEN [rows |-> rows, total_filled |-> total_filled, calls |-> issued]
                ELSE FillRanges_stop(table_name, stored.rows, gap_ranges, i + 1, answers,
                                     errors, total_filled + stored.inserted_count, issued)

\* The loop over gap_ranges: lines 393-423 and 451-492
RECURSIVE FillRanges(_, _, _, _, _, _, _, _)
FillRanges(table_name, rows, gap_ranges, i, answers, errors, total_filled, calls) ==
    IF i > Len(gap_ranges)
       THEN [rows |-> rows, total_filled |-> total_filled, calls |-> calls]
    ELSE LET data_points == fetch_points(table_name, gap_ranges[i][1],
                                         gap_ranges[i][2], answers[i])
             stored == InsertPoints(table_name, rows, data_points, 1, 0,
                                    errors, <<>>)
         IN  FillRanges(table_name, stored.rows, gap_ranges, i + 1, answers, errors,
                        total_filled + stored.inserted_count,
                        Append(calls, [start_time |-> gap_ranges[i][1],
                                       end_time |-> gap_ranges[i][2],
                                       answer |-> answers[i],
                                       points |-> data_points,
                                       errors |-> errors,
                                       writes |-> stored.writes,
                                       inserted_count |-> stored.inserted_count]))

\* The ranges fill_data_gaps and fill_generation_gaps fetch: the gaps of
\* the whole table, consolidated
gap_ranges_of(rows, granularity_minutes) ==
    group_consecutive_gaps(detect_data_gaps(rows, granularity_minutes, None, None).ret,
                           granularity_minutes)

\* fill_data_gaps or fill_generation_gaps, by the series, as the health
\* check calls them: with a granularity of 30 minutes
FillGapsOf(answer_set) ==
    /\ bf.pc \in {"idle", "done"}
    /\ cycle.pc = "none"
    /\ LET gap_ranges == gap_ranges_of(db[series], 30)
       IN  \E answers \in [1..Len(gap_ranges) -> answer_set], errors \in SUBSET {1} :
              LET f == FillRanges(series, db[series], gap_ranges, 1, answers,
                                  errors, 0, <<>>)
              IN  /\ db' = [db EXCEPT ![series] = f.rows]
                  /\ last' = [op |-> "fill_gaps", table |-> series,
                              fetched |-> gap_ranges # <<>>, before |-> db[series],
                              calls |-> f.calls, total_filled |-> f.total_filled,
                              ret |-> TRUE, raised |-> FALSE]
    /\ UNCHANGED <<series, now, bf, cycle, writers>>

\* The ranges of the HTTP requests of one fetch: the carbon-intensity
\* client puts the window into one URL, the generation client one chunk
\* per request
request_ranges(table_name, start_time, end_time) ==
    IF table_name = CARBON THEN <<<<start_time, end_time>>>>
    ELSE limit_date_range(start_time, end_time, ChunkDays)

\* The clock readings at which a collector wakes up: a quarter of an hour
\* to two hours after the latest grid instant, and after an outage longer
\* than the largest chunk of a request
CollectClock ==
    {75, 90, 180, Day + 60, (ChunkDays + 1) * Day + 60}

\* The table as an earlier run left it, and the time of the collection
InitCollect ==
    /\ ExistingStore
    /\ last = [op |-> "init"]
    /\ now \in CollectClock
    /\ bf = BfIdle
    /\ cycle = NoCycle
    /\ loop = NoLoop
    /\ writers = NoWriters

Collect == CollectOf(CollectAnswers) /\ UNCHANGED loop

SpecCollect == InitCollect /\ [][Collect]_vars

----------------------------------------------------------------------------
(* The engine: the operations main_loop schedules, src/app/main.py, and the
   interpolation run, src/interpolate_single_gaps.py, over one store *)

\* The backfill configuration of the engine: a day of history, fetched an
\* hour at a time
EngineConfigs ==
    {c \in BackfillConfigs : c.target_oldest_days = 1 /\ c.hours_per_call = 1}

\* The clock readings of the engine's operations
EngineClock == {75, 90, 180}

\* The tasks of one pass of main_loop, in their order (lines 644-682), and
\* the sleep that ends it
NextTask(pc) ==
    CASE pc = "collect" -> "health"
      [] pc = "health" -> "backfill"
      [] pc = "backfill" -> "forecast"
      [] pc = "forecast" -> "sleep"

\* should_run_...() says the task is not due
EngineSkip ==
    /\ loop.pc \in {"collect", "health", "backfill", "forecast"}
    /\ bf.pc = "idle"
    /\ loop' = [loop EXCEPT !.pc = NextTask(@)]
    /\ UNCHANGED <<series, db, last, now, bf, cycle, writers>>

EngineCollect ==
    /\ loop.pc = "collect"
    /\ CollectOf(Answers)
    /\ loop' = [loop EXCEPT !.pc = NextTask(@)]

\* run_health_check: the gaps of the series are filled
EngineFillGaps ==
    /\ loop.pc = "health"
    /\ FillGapsOf(Answers)
    /\ loop' = [loop EXCEPT !.pc = NextTask(@)]

\* run_backfill: the backfill of the series starts
EngineBackfill ==
    /\ loop.pc = "backfill"
    /\ bf.pc = "idle"
    /\ BackfillStatsOf(EngineConfigs)

\* One call of the backfill, whose writes may meet a store error
EngineBackfillCall ==
    /\ loop.pc = "backfill"
    /\ BackfillCallOf(SUBSET {1})

\* run_backfill returned
EngineBackfillReturn ==
    /\ loop.pc = "backfill"
    /\ bf.pc = "done"
    /\ bf' = [pc |-> "idle", cycles |-> bf.cycles]
    /\ loop' = [loop EXCEPT !.pc = NextTask(@)]
    /\ UNCHANGED <<series, db, last, now, cycle, writers>>

EngineForecastUpdate ==
    /\ loop.pc = "forecast"
    /\ ForecastUpdateOf
    /\ loop' = [loop EXCEPT !.pc = NextTask(@)]

\* time.sleep, then the next pass
EngineSleep ==
    /\ loop.pc = "sleep"
    /\ loop.ticks < MaxTicks
    /\ \E t \in EngineClock : t >= now /\ now' = t
    /\ loop' = [pc |-> "collect", ticks |-> loop.ticks + 1]
    /\ UNCHANGED <<series, db, last, bf, cycle, writers>>

\* GapInterpolator.run_interpolation: add_interpolation_columns, whose
\* exception is logged and raised again, then both tables at 30 minutes
RunInterpolationOf ==
    /\ bf.pc \in {"idle", "done"}
    /\ cycle.pc = "none"
    /\ \E columns_error \in BOOLEAN, up \in BOOLEAN :
          LET carbon == interpolate_table_gaps(CARBON, db[CARBON], 30, up)
              generation == interpolate_table_gaps(GENERATION, db[GENERATION], 30, up)
          IN  IF columns_error
                 THEN /\ db' = db
                      /\ last' = [op |-> "run_interpolation", before |-> db[series],
                                  raised |-> TRUE]
                 ELSE /\ db' = [t \in Tables |->
                                  IF t = CARBON THEN carbon.rows ELSE generation.rows]
                      /\ last' = [op |-> "run_interpolation", before |-> db[series],
                                  carbon_filled |-> carbon.filled_count,
                                  generation_filled |-> generation.filled_count,
                                  raised |-> FALSE]
    /\ UNCHANGED <<series, now, bf, cycle, writers>>

\* The interpolation script, run between two passes of the loop
RunInterpolation ==
    /\ loop.pc = "sleep"
    /\ RunInterpolationOf
    /\ UNCHANGED loop

InitEngine ==
    /\ ExistingStore
    /\ last = [op |-> "init"]
    /\ now \in EngineClock
    /\ bf = BfIdle
    /\ cycle = NoCycle
    /\ loop = [pc |-> "sleep", ticks |-> 0]
    /\ writers = NoWriters

NextEngine ==
    \/ EngineSkip
    \/ EngineCollect
    \/ EngineFillGaps
    \/ EngineBackfill
    \/ BackfillPlan
    \/ EngineBackfillCall
    \/ EngineBackfillReturn
    \/ EngineForecastUpdate
    \/ EngineSleep
    \/ RunInterpolation

SpecEngine == InitEngine /\ [][NextEngine]_vars

----------------------------------------------------------------------------
(* Properties of the store *)

\* The instant a stored or submitted timestamp names
InstantOf(ts) == parse_timestamp(normalize_timestamp(ts))

RowsAt(rows, m) == {r \in rows : InstantOf(r.timestamp) = m}

\* C1: once the sample stored at an instant of the carbon-intensity series
\* is actual, a write with provenance forecast at that instant, in whatever
\* spelling, leaves the rows stored at that instant as they were
C1_ForecastKeepsActual ==
    [][(/\ last'.op = "insert"
        /\ last'.table = CARBON
        /\ last'.is_forecast
        /\ \E r \in RowsAt(db[CARBON], InstantOf(last'.timestamp)) :
              r.is_forecast = 0)
       => RowsAt(db'[CARBON], InstantOf(last'.timestamp))
            = RowsAt(db[CARBON], InstantOf(last'.timestamp))]_vars

\* A forecast with a seconds field and another value was just submitted at
\* an instant whose stored sample is actual
C1_Witness ==
    /\ last.op = "insert"
    /\ last.table = CARBON
    /\ last.is_forecast
    /\ last.timestamp.sec
    /\ last.path = "skipped"
    /\ \E r \in RowsAt(db[CARBON], InstantOf(last.timestamp)) :
          r.is_forecast = 0 /\ r.value # last.value

\* C4: whatever spellings the writes of a series used, each table holds at
\* most one sample per instant
C4_OneSamplePerInstant ==
    \A t \in Tables : \A r1, r2 \in db[t] :
        InstantOf(r1.timestamp) = InstantOf(r2.timestamp) => r1 = r2

\* An instant that already held a sample was just submitted again with an
\* explicit +00:00 offset and a seconds field
C4_Witness ==
    /\ last.op = "insert"
    /\ last.timestamp.tz = "+00:00"
    /\ last.timestamp.sec
    /\ last.path # "inserted"
    /\ Cardinality(db[series]) = MaxWriteInstants

----------------------------------------------------------------------------
(* Properties of the detector *)

\* The expected instants of a window
ExpectedInstants(from, to, granularity) ==
    {m \in from..to : (m - from) % granularity = 0}

\* The instants that hold a stored sample, in whatever spelling
StoredInstants(rows) == {InstantOf(r.timestamp) : r \in rows}

\* The instants a gap list reports as missing
Reported(gaps, granularity) ==
    {m \in Instants : \E i \in 1..Len(gaps) :
        /\ gaps[i][1] <= m
        /\ m <= gaps[i][2]
        /\ (m - gaps[i][1]) % granularity = 0}

\* A detection over a window with start < end just returned
Detected == last.op = "detect" /\ last.path = "ok"

\* C3: the gap list of a detection is empty if and only if every expected
\* instant of its window has a stored sample
C3_EmptyIffComplete ==
    Detected =>
        (last.ret = <<>>
            <=> ExpectedInstants(last.from, last.to, last.granularity)
                    \subseteq StoredInstants(db[series]))

\* C5: a detection never reports an instant as missing when a stored
\* timestamp normalizes to it, window_start and window_end included
C5_StoredNeverReported ==
    Detected =>
        Reported(last.ret, last.granularity) \cap StoredInstants(db[series]) = {}

C8_MaximalRuns ==
    Detected =>
        LET g == last.granularity
            gaps == last.ret
        IN  /\ \A i \in 1..(Len(gaps) - 1) : gaps[i][1] < gaps[i + 1][1]
            /\ \A i, j \in 1..Len(gaps) : gaps[j][1] # gaps[i][2] + g
            /\ \A m \in Reported(gaps, g) :
                  (m + g) \in Reported(gaps, g) =>
                      \E i \in 1..Len(gaps) :
                          gaps[i][1] <= m /\ m + g <= gaps[i][2]

\* C9: in a 30-minute window stored but for one interior instant, the
\* detection returns that instant as its one gap, and a detection made
\* once a sample is stored at an interior instant does not report it
C9_SingleInteriorGap ==
    (Detected /\ last.granularity = 30) =>
        LET expected == ExpectedInstants(last.from, last.to, last.granularity)
            stored == StoredInstants(db[series])
        IN  \A t \in expected :
               (last.from < t /\ t < last.to) =>
                  /\ expected \ stored = {t} => last.ret = << <<t, t>> >>
                  /\ t \in stored => t \notin Reported(last.ret, last.granularity)

----------------------------------------------------------------------------
(* Properties of the consolidator *)

\* C6: whatever the gap list, sorted or not, overlapping or nested, no two
\* ranges of the output are such that one starts one interval after the
\* other ends
C6_NoAdjacentRanges ==
    last.op = "consolidate" =>
        \A i, j \in 1..Len(last.ret) :
            last.ret[j][1] # last.ret[i][2] + last.granularity

----------------------------------------------------------------------------
(* Properties of the backfill *)

CeilDiv(a, b) == (a + b - 1) \div b

\* C2: whatever the configuration and the store, one cycle sends at most
\* max_calls_per_cycle requests to the remote service for the series
C2_RequestsWithinBudget ==
    (bf.pc = "calls" \/ (bf.pc = "done" /\ bf.cycles > 0)) =>
        bf.requests <= bf.config.max_calls_per_cycle

\* C10: when the oldest stored instant is after the target, a cycle none
\* of whose windows failed issues exactly min(max_calls_per_cycle,
\* ceil((oldest - target) / hours_per_call)) fetch windows, so at least one
C10_CallCount ==
    (bf.pc = "done" /\ bf.cycles > 0 /\ bf.ret /\ bf.oldest > bf.target) =>
        Len(bf.windows) = Min(bf.config.max_calls_per_cycle,
                              CeilDiv(bf.oldest - bf.target,
                                      bf.config.hours_per_call * 60))

\* C11: when a fetch window of a cycle raised, the remaining windows of the
\* cycle were still issued and the backfill of the series reports success
C11_FailedWindowSkipped ==
    (bf.pc = "done" /\ bf.cycles > 0 /\ bf.failed) =>
        (Len(bf.windows) = bf.calls_needed /\ bf.ret)

\* C12: when the oldest stored instant of the series is at or before
\* now - target_oldest_days, the backfill issues no fetch, writes nothing
\* to the store and reports success
C12_SatisfiedNoAction ==
    [][(/\ bf.pc = "stats"
        /\ bf'.pc # "stats"
        /\ \E m \in StoredInstants(db[series]) :
              m <= now - bf.config.target_oldest_days * Day)
       => (/\ bf'.pc = "done"
           /\ bf'.ret
           /\ bf'.windows = <<>>
           /\ bf'.requests = 0
           /\ db' = db)]_vars

\* A backfill just returned over a table whose oldest row, stored with a
\* seconds field, is strictly before the target
C12_Witness ==
    /\ bf.pc = "done"
    /\ bf.has_data
    /\ bf.target # None
    /\ bf.oldest < bf.target
    /\ bf.ret
    /\ bf.windows = <<>>
    /\ \E r \in db[series] :
          r.timestamp.sec /\ InstantOf(r.timestamp) = bf.oldest

\* C13: over an empty table every window issued is hours_per_call long and
\* the last planned window ends at the time the cycle read from the clock;
\* with target_oldest_days=2, hours_per_call=24, max_calls_per_cycle=1 the
\* cycle issues exactly one window
C13_EmptyStoreWindows ==
    (bf.pc \in {"calls", "done"} /\ bf.target # None /\ ~bf.has_data) =>
        /\ \A i \in 1..Len(bf.windows) :
              /\ bf.windows[i][2] - bf.windows[i][1] = bf.config.hours_per_call * 60
              /\ i = bf.calls_needed => bf.windows[i][2] = bf.current_time
        /\ (/\ bf.pc = "done"
            /\ bf.config = [target_oldest_days |-> 2, hours_per_call |-> 24,
                            max_calls_per_cycle |-> 1])
           => Len(bf.windows) = 1

\* The scenario's cycle just ended: one window, of the 24 hours before the
\* time read from the clock
C13_Witness ==
    /\ bf.pc = "done"
    /\ bf.target # None
    /\ ~bf.has_data
    /\ bf.config = [target_oldest_days |-> 2, hours_per_call |-> 24,
                    max_calls_per_cycle |-> 1]
    /\ bf.windows = << <<bf.current_time - Day, bf.current_time>> >>
    /\ bf.ret

----------------------------------------------------------------------------
(* Properties of the backfill cycle *)

\* C14: when a cycle returns, every configured table was visited, the
\* backfill of every table that has both its functions was started, whatever
\* happened to the tables before it, and the cycle reports failure exactly
\* when at least one table failed
C14_TablesIndependent ==
    cycle.pc = "done" =>
        /\ {cycle.results[i].table : i \in 1..Len(cycle.results)} = Tables
        /\ (cycle.api_functions \cap cycle.db_insert_functions) \subseteq cycle.started
        /\ ~cycle.ret <=> \E i \in 1..Len(cycle.results) : ~cycle.results[i].ok

\* The backfill of the first table failed, the backfill of the second one
\* ran after it and stored samples, and the cycle reported failure
C14_Witness ==
    /\ cycle.pc = "done"
    /\ ~cycle.ret
    /\ cycle.results[1] = [table |-> CARBON, ok |-> FALSE, why |-> "backfill"]
    /\ cycle.results[2] = [table |-> GENERATION, ok |-> TRUE, why |-> "backfill"]
    /\ bf.total_inserted > 0

----------------------------------------------------------------------------
(* Properties of the forecast update *)

\* A forecast update just returned
Updated == last.op = "forecast_update"

\* The fetches whose response held a sample at exactly the record's
\* instant with an actual value
ActualFetches ==
    {i \in 1..Len(last.fetched) : last.fetched[i].answer = "samples"}

\* C15: a stored forecast is changed only if the response fetched for it
\* holds an actual sample at exactly its instant; responses with only the
\* neighbouring instant, only forecasts or nothing change no row and are
\* not counted in updated_count
C15_PromotesOnlyOnExactActual ==
    Updated =>
        /\ \A r \in last.before :
              (r.is_forecast = 1 /\ r \notin db[CARBON]) =>
                  \E i \in ActualFetches : last.fetched[i].timestamp = r.timestamp
        /\ (ActualFetches = {}) => db[CARBON] = last.before
        /\ last.updated_count <= Cardinality(ActualFetches)

\* Three stored forecasts were just re-fetched: one response held only the
\* neighbouring half hour, one only forecasts, one nothing
C15_Witness ==
    /\ Updated
    /\ {last.fetched[i].answer : i \in 1..Len(last.fetched)}
          = {"neighbour", "forecasts", "nothing"}
    /\ db[CARBON] = last.before
    /\ last.updated_count = 0

\* C16: every stored forecast whose re-fetched window held an actual
\* sample at its instant is stored as actual with the fetched value after
\* the update, and updated_count counts it
C16_PromotesOnActual ==
    Updated =>
        /\ \A i \in ActualFetches :
              \E r \in db[CARBON] :
                 /\ r.timestamp = last.fetched[i].timestamp
                 /\ r.is_forecast = 0
                 /\ r.value = 200
        /\ last.updated_count >= Cardinality(ActualFetches)

\* C17: a fetch is issued only for a stored forecast whose instant is
\* within lookback_hours of now and not older than the staleness ceiling,
\* and the rows that are not re-fetched are not changed
C17_FetchesOnlyRecentForecasts ==
    Updated =>
        /\ \A i \in 1..Len(last.fetched) :
              LET t == InstantOf(last.fetched[i].timestamp)
              IN  /\ \E r \in last.before :
                        r.timestamp = last.fetched[i].timestamp /\ r.is_forecast = 1
                  /\ t > now - LookbackHours * 60
                  /\ now - t <= StaleDays * Day
        /\ \A r \in last.before :
              (\A i \in 1..Len(last.fetched) : last.fetched[i].timestamp # r.timestamp)
                  => r \in db[CARBON]

----------------------------------------------------------------------------
(* Properties of the interpolator *)

\* An interpolation run just returned
Interpolated == last.op = "interpolate"

\* The rows the run wrote
Written == db[series] \ last.before

\* The values stored before the run at an instant
ValuesAt(rows, m) == {r.value : r \in RowsAt(rows, m)}

\* The instants a gap list covers, whatever their number
Covered(gaps, granularity) ==
    {m \in InterpolateInstants : \E i \in 1..Len(gaps) :
        /\ gaps[i][1] <= m
        /\ m <= gaps[i][2]
        /\ (m - gaps[i][1]) % granularity = 0}

\* C18: a run writes at an instant only if it is a gap of one sample with
\* samples stored one interval before and after it; the instants of longer
\* gaps stay unfilled, and filled_count counts exactly the rows written
C18_FillsOnlySingleGaps ==
    Interpolated =>
        /\ \A r \in Written :
              LET t == InstantOf(r.timestamp)
              IN  /\ \E i \in 1..Len(last.gaps) : last.gaps[i] = <<t, t>>
                  /\ t \notin StoredInstants(last.before)
                  /\ (t - last.granularity) \in StoredInstants(last.before)
                  /\ (t + last.granularity) \in StoredInstants(last.before)
        /\ \A i \in 1..Len(last.gaps) :
              last.gaps[i][1] < last.gaps[i][2] =>
                  \A m \in last.gaps[i][1]..last.gaps[i][2] : RowsAt(Written, m) = {}
        /\ last.before \subseteq db[series]
        /\ last.filled_count = Cardinality(Written)

\* A run just filled one single gap and left another unfilled, whose
\* later neighbour is not found
C18_Witness ==
    /\ Interpolated
    /\ last.filled_count = 1
    /\ \E i \in 1..Len(last.gaps) :
          /\ last.gaps[i][1] = last.gaps[i][2]
          /\ RowsAt(db[series], last.gaps[i][1]) = {}
          /\ RowsAt(db[series], last.gaps[i][1] - last.granularity) # {}

\* C19 as stated: every row written holds exactly a + (b - a)/2, a and b
\* the values one interval before and after it, and is marked interpolated
C19_ExactMidpoint ==
    Interpolated =>
        \A r \in Written :
           /\ r.is_interpolated
           /\ \A a \in ValuesAt(last.before, InstantOf(r.timestamp) - last.granularity),
                 b \in ValuesAt(last.before, InstantOf(r.timestamp) + last.granularity) :
                 2 * r.value = a + b

\* C19, amended: every row written is marked interpolated and holds
\* a + (b - a)/2 rounded to the precision of the series (one decimal for
\* emissions, three for generation): the exact value whenever it has no
\* more decimals than that, else one of its two neighbours
C19_RoundedMidpoint ==
    Interpolated =>
        \A r \in Written :
           /\ r.is_interpolated
           /\ \A a \in ValuesAt(last.before, InstantOf(r.timestamp) - last.granularity),
                 b \in ValuesAt(last.before, InstantOf(r.timestamp) + last.granularity) :
                 /\ 2 * r.value - (a + b) \in {0 - 1, 0, 1}
                 /\ (a + b) % 2 = 0 => 2 * r.value = a + b

\* A run just filled a gap of the emissions between 10.0 and 20.0 with 15.0
C19_Witness ==
    /\ Interpolated
    /\ series = CARBON
    /\ \E r \in Written :
          /\ r.value = 150
          /\ r.is_interpolated
          /\ ValuesAt(last.before, InstantOf(r.timestamp) - last.granularity) = {100}
          /\ ValuesAt(last.before, InstantOf(r.timestamp) + last.granularity) = {200}

\* C20: a run that follows a run with the same arguments fills no gap,
\* leaves the store as it is, and finds none of the instants the first run
\* filled among its gaps
C20_SecondRunNoOp ==
    [][(Interpolated /\ last'.op = "interpolate" /\ last'.again)
          => (/\ last'.filled_count = 0
              /\ db' = db
              /\ \A i \in 1..Len(last.filled) :
                    last.filled[i] \notin Covered(last'.gaps, last'.granularity))]_vars

\* A second run just returned after a run that filled a gap
C20_Witness ==
    /\ Interpolated
    /\ last.again
    /\ last.filled_count = 0
    /\ \E r \in db[series] : r.is_interpolated

\* C21: every stored sample has exactly one provenance among actual,
\* forecast and interpolated: no row of either table is marked forecast and
\* interpolated at the same time
C21_OneProvenance ==
    \A t \in Tables : \A r \in db[t] : ~(r.is_forecast = 1 /\ r.is_interpolated)

\* C23: a write at an instant that already holds a sample changes the
\* table only when the stored sample is a forecast and the incoming one an
\* actual; every other write to an occupied instant leaves the stored
\* value and provenance as they were
C23_OnlyPromotionChanges ==
    [][(/\ last'.op = "insert"
        /\ RowsAt(db[series], InstantOf(last'.timestamp)) # {})
          => (\/ db' = db
              \/ /\ \A r \in RowsAt(db[series], InstantOf(last'.timestamp)) :
                       r.is_forecast = 1
                 /\ ~last'.is_forecast)]_vars

----------------------------------------------------------------------------
(* Properties of collection and gap filling *)

Collected == last.op = "collect" /\ last.fetched

\* C25: a fetched record whose timestamp cannot be parsed is rejected on
\* its own: its write reports failure and no row is stored under its text,
\* while the other records of the batch are written
C25_MalformedRejected ==
    Collected =>
        \A k \in 1..Len(last.calls) :
           LET call == last.calls[k]
           IN  \A i \in 1..Len(call.points) :
                  IF parse_raises(call.points[i].timestamp)
                     THEN /\ ~call.writes[i]
                          /\ \A r \in Written : ~parse_raises(r.timestamp)
                     ELSE i \notin call.errors => call.writes[i]

\* C27: an empty response of the remote service is no error: the
\* operation obtained zero points, stored nothing and reports success
C27_EmptyResponseSucceeds ==
    (Collected /\ \A k \in 1..Len(last.calls) : last.calls[k].answer = "nothing")
        => /\ last.ret
           /\ db[series] = last.before
           /\ \A k \in 1..Len(last.calls) : last.calls[k].inserted_count = 0

\* C30: every request sent to a remote service spans at most the per-call
\* maximum, the chunk of ChunkDays days, however old the latest stored
\* sample is
C30_SpanBounded ==
    Collected =>
        \A k \in 1..Len(last.calls) :
           LET ranges == request_ranges(series, last.calls[k].start_time,
                                        last.calls[k].end_time)
           IN  \A i \in 1..Len(ranges) :
                  ranges[i][2] - ranges[i][1] <= ChunkDays * Day

\* C26: a detection asked for a window whose start is not before its end
\* returns an error outcome, which differs from the empty gap list a window
\* without gaps returns
C26_InvalidWindowDistinct ==
    (/\ last.op = "detect"
     /\ last.start_time # None
     /\ last.end_time # None
     /\ last.start_time >= last.end_time)
        => last.ret # <<>>

----------------------------------------------------------------------------
(* Properties of the engine *)

\* C22: whatever operation the engine runs (collection, gap filling,
\* backfill, forecast update, interpolation), an instant that holds a
\* sample of a series holds one in the next state
C22_InstantsNeverLost ==
    [][\A t \in Tables : StoredInstants(db[t]) \subseteq StoredInstants(db'[t])]_vars

\* A collection just replaced the row stored at an instant
C22_Witness ==
    /\ Collected
    /\ \E r \in last.before :
          /\ r \notin db[series]
          /\ InstantOf(r.timestamp) \in StoredInstants(db[series])

\* C24: no exception leaves an operation of the engine: each one returns
\* an outcome to its caller
C24_NoExceptionEscapes ==
    last.op \in {"collect", "fill_gaps", "run_interpolation"} => ~last.raised

\* The batches of the last operation: one per fetch
Batches == IF "calls" \in DOMAIN last THEN last.calls ELSE <<>>

\* C28: in every fetched batch each sample is written, a write that fails
\* does not keep the later samples from being stored, and the batch's
\* count of inserted samples is the number of writes that reported success
C28_FailedWriteDoesNotBlock ==
    \A k \in 1..Len(Batches) :
       LET call == Batches[k]
       IN  /\ Len(call.writes) = Len(call.points)
           /\ \A i \in 1..Len(call.points) :
                 IF i \in call.errors THEN ~call.writes[i]
                 ELSE /\ call.writes[i]
                      /\ InstantOf(call.points[i].timestamp)
                            \in StoredInstants(db[series])
           /\ call.inserted_count =
                 Cardinality({i \in 1..Len(call.writes) : call.writes[i]})

\* The first write of a batch of two failed and the second stored a new
\* sample, counted as the only one inserted
C28_Witness ==
    \E k \in 1..Len(Batches) :
       LET call == Batches[k]
       IN  /\ Len(call.points) = 2
           /\ call.writes = <<FALSE, TRUE>>
           /\ call.inserted_count = 1
           /\ InstantOf(call.points[2].timestamp) \notin StoredInstants(last.before)
           /\ InstantOf(call.points[2].timestamp) \in StoredInstants(db[series])

----------------------------------------------------------------------------
(* Two connections writing the same instant: src/app/database.py, lines 102-129.
   Each call of insert_carbon_intensity_data opens its own connection; its
   SELECT runs outside a transaction and the INSERT OR REPLACE with its
   commit is the only statement that takes the write lock. *)

ACTUAL_WRITER == 1
FORECAST_WRITER == 2

Writer(timestamp, emissions, is_forecast) ==
    [pc |-> "start", timestamp |-> timestamp, emissions |-> emissions,
     is_forecast |-> is_forecast, ret |-> None]

\* SELECT is_forecast FROM carbon_intensity_30min_data WHERE timestamp = ?
select_existing(rows, normalized_timestamp) ==
    {r \in rows : r.timestamp = normalized_timestamp}

\* INSERT OR REPLACE INTO carbon_intensity_30min_data ... and the commit
insert_or_replace(rows, normalized_timestamp, emissions, is_forecast) ==
    (rows \ select_existing(rows, normalized_timestamp))
       \cup {CarbonRow(normalized_timestamp, emissions, IF is_forecast THEN 1 ELSE 0)}

\* The call up to the INSERT: the lookup and the decision to skip
UpsertSelect(i) ==
    /\ i \in DOMAIN writers
    /\ writers[i].pc = "start"
    /\ LET w == writers[i]
           existing == select_existing(db[CARBON], WriteKey(w.timestamp))
       IN  writers' = [writers EXCEPT ![i] =
              IF normalize_raises(w.timestamp)
                 THEN [w EXCEPT !.pc = "done", !.ret = FALSE]
              ELSE IF \E r \in existing : ForecastOverActual(r.is_forecast, w.is_forecast)
                 THEN [w EXCEPT !.pc = "done", !.ret = TRUE]
              ELSE [w EXCEPT !.pc = "selected"]]
    /\ UNCHANGED <<series, db, last, now, bf, cycle, loop>>

\* The INSERT OR REPLACE, its commit and the return
UpsertWrite(i) ==
    /\ i \in DOMAIN writers
    /\ writers[i].pc = "selected"
    /\ LET w == writers[i]
       IN  /\ db' = [db EXCEPT ![CARBON] =
                       insert_or_replace(@, WriteKey(w.timestamp), w.emissions,
                                         w.is_forecast)]
           /\ writers' = [writers EXCEPT ![i] = [w EXCEPT !.pc = "done", !.ret = TRUE]]
    /\ UNCHANGED <<series, last, now, bf, cycle, loop>>

\* A carbon table holding actual and forecast rows, and two calls for one
\* instant about to start: one actual, one forecast
InitUpsert ==
    /\ series = CARBON
    /\ \E present \in SUBSET WriteInstants :
       \E provenance \in [present -> {0, 1}] :
          db = [t \in Tables |->
                  IF t = CARBON
                     THEN {CarbonRow(Stamp(m, [sec |-> FALSE, tz |-> "Z"]), 100,
                                     provenance[m]) : m \in present}
                     ELSE {}]
    /\ \E m \in WriteInstants, f \in Formats, g \in Formats, a \in Emissions, e \in Emissions :
          writers = <<Writer(Stamp(m, f), a, FALSE), Writer(Stamp(m, g), e, TRUE)>>
    /\ last = [op |-> "init"]
    /\ now = 0
    /\ bf = BfIdle
    /\ cycle = NoCycle
    /\ loop = NoLoop

NextUpsert ==
    \/ \E i \in {ACTUAL_WRITER, FORECAST_WRITER} : UpsertSelect(i)
    \/ \E i \in {ACTUAL_WRITER, FORECAST_WRITER} : UpsertWrite(i)

SpecUpsert == InitUpsert /\ [][NextUpsert]_vars

\* C29: when an actual and a forecast upsert at the same instant have both
\* returned, whatever their interleaving, the sample stored at the instant
\* is actual and carries the actual writer's value
C29_ActualWins ==
    (/\ Len(writers) = 2
     /\ \A i \in DOMAIN writers : writers[i].pc = "done")
    => LET w == writers[ACTUAL_WRITER]
           stored == select_existing(db[CARBON], WriteKey(w.timestamp))
       IN  /\ stored # {}
           /\ \A r \in stored : r.is_forecast = 0 /\ r.value = w.emissions

----------------------------------------------------------------------------
(* Gap filling over many outages: src/app/main.py, fill_data_gaps and
   fill_generation_gaps; src/test_gap_limits.py *)

\* MAX_GAP_CHUNKS of test_gap_chunking
MAX_GAP_CHUNKS == 5

\* A grid long enough to hold one outage more than MAX_GAP_CHUNKS
OutageSlots == 1..(MAX_GAP_CHUNKS + 1)

\* The samples on both sides of every outage slot are stored; each slot
\* holds its sample or misses it
InitFill ==
    /\ series \in Tables
    /\ \E filled \in SUBSET OutageSlots :
          LET present == {60 * k : k \in 0..(MAX_GAP_CHUNKS + 1)}
                            \cup {60 * k - 30 : k \in filled}
          IN  db = [t \in Tables |->
                      IF t = series
                         THEN {IF t = CARBON
                                  THEN CarbonRow(Stamp(m, [sec |-> FALSE, tz |-> "Z"]), 100, 0)
                                  ELSE GenerationRow(Stamp(m, [sec |-> FALSE, tz |-> "Z"]), 1)
                               : m \in present}
                         ELSE {}]
    /\ last = [op |-> "init"]
    /\ now = 60 * (MAX_GAP_CHUNKS + 1)
    /\ bf = BfIdle
    /\ cycle = NoCycle
    /\ loop = NoLoop
    /\ writers = NoWriters

\* One pass of gap filling over the table as it was found
FillGaps ==
    /\ last.op = "init"
    /\ FillGapsOf(Answers)
    /\ UNCHANGED loop

SpecFill == InitFill /\ [][FillGaps]_vars

Filled == last.op = "fill_gaps"

\* C31: one pass of gap filling fetches at most MAX_GAP_CHUNKS ranges, the
\* most recent ones of those detected
C31_AtMostFiveRanges ==
    Filled =>
       LET gap_ranges == gap_ranges_of(last.before, 30)
           n == Len(gap_ranges)
           skipped == IF n > MAX_GAP_CHUNKS THEN n - MAX_GAP_CHUNKS ELSE 0
       IN  /\ Len(last.calls) <= MAX_GAP_CHUNKS
           /\ Len(last.calls) = n - skipped
           /\ \A k \in 1..Len(last.calls) :
                 /\ last.calls[k].start_time = gap_ranges[k + skipped][1]
                 /\ last.calls[k].end_time = gap_ranges[k + skipped][2]

----------------------------------------------------------------------------
(* The chunks of a date range: src/app/elexon_bm_api.py, _limit_date_range *)

\* The bounds of the ranges handed over: whole and half days
ChunkTimes == {k * (Day \div 2) : k \in 0..MaxChunkHalfDays}

\* The caller's state just before the call
InitChunks ==
    /\ series = GENERATION
    /\ db = [t \in Tables |-> {}]
    /\ now = 0
    /\ bf = BfIdle
    /\ cycle = NoCycle
    /\ loop = NoLoop
    /\ writers = NoWriters
    /\ \E s \in ChunkTimes, e \in ChunkTimes, m \in {1, 2, ChunkDays} :
          last = [op |-> "range", start_time |-> s, end_time |-> e, max_days |-> m]

LimitDateRange ==
    /\ last.op = "range"
    /\ last' = [op |-> "chunks", start_time |-> last.start_time,
                end_time |-> last.end_time, max_days |-> last.max_days,
                ret |-> limit_date_range(last.start_time, last.end_time, last.max_days)]
    /\ UNCHANGED <<series, db, now, bf, cycle, loop, writers>>

SpecChunks == InitChunks /\ [][LimitDateRange]_vars

\* C32: for start < end the chunks number ceil((end - start) / max_days),
\* follow one another without a hole from start to end, and none is longer
\* than max_days, so a range shorter than max_days is one chunk; for
\* start = end there is the one chunk (start, end)
C32_ChunksCoverRange ==
    last.op = "chunks" =>
       LET s == last.start_time
           e == last.end_time
           width == last.max_days * Day
           chunks == last.ret
           n == Len(chunks)
       IN  /\ s < e =>
                /\ n = (e - s + width - 1) \div width
                /\ chunks[1][1] = s
                /\ chunks[n][2] = e
                /\ \A i \in 1..n : chunks[i][2] - chunks[i][1] <= width
                /\ \A i \in 2..n : chunks[i][1] = chunks[i - 1][2]
                /\ e - s < width => n = 1
           /\ s = e => chunks = <<<<s, e>>>>

\* A range cut into several chunks, the last one shorter than max_days
C32_Witness ==
    /\ last.op = "chunks"
    /\ last.start_time < last.end_time
    /\ Len(last.ret) >= 3
    /\ LET c == last.ret[Len(last.ret)] IN c[2] - c[1] < last.max_days * Day

----------------------------------------------------------------------------
(* Properties of the order of the backfill windows *)

\* C33: the fetch windows of one backfill of a series walk backward from
\* the oldest stored instant: the first one issued ends at it, each later
\* one ends where the one before it starts, and none reaches past it
C33_WindowsWalkBackward ==
    (bf.pc \in {"calls", "done"} /\ bf.windows # <<>>) =>
        /\ bf.windows[1][2] = bf.oldest
        /\ \A i \in 2..Len(bf.windows) : bf.windows[i][2] = bf.windows[i - 1][1]
        /\ \A i \in 1..Len(bf.windows) : bf.windows[i][2] <= bf.oldest

----------------------------------------------------------------------------
(* The match of a fetched point against a stored forecast:
   src/app/main.py, run_forecast_update, lines 572-586 *)

\* The points a response may hold: any accepted spelling of the instant,
\* with or without the 'is_forecast' key
ResponsePoints ==
    [timestamp : RawStamps, value : {200}, is_forecast : BOOLEAN]
       \cup [timestamp : RawStamps, value : {200}]

\* A forecast stored under its normalized timestamp and the response
\* fetched for it
InitMatch ==
    /\ series = CARBON
    /\ \E m \in Instants, point \in ResponsePoints :
          /\ db = [t \in Tables |->
                     IF t = CARBON THEN {CarbonRow(format_timestamp(m), 100, 1)}
                     ELSE {}]
          /\ last = [op |-> "response", timestamp_str |-> format_timestamp(m),
                     data_points |-> <<point>>]
    /\ now = 0
    /\ bf = BfIdle
    /\ cycle = NoCycle
    /\ loop = NoLoop
    /\ writers = NoWriters

PromoteRecord ==
    /\ last.op = "response"
    /\ LET r == promote_record(db[CARBON], last.data_points, last.timestamp_str)
       IN  /\ db' = [db EXCEPT ![CARBON] = r.rows]
           /\ last' = [op |-> "match", timestamp_str |-> last.timestamp_str,
                       data_points |-> last.data_points, ret |-> r.ret]
    /\ UNCHANGED <<series, now, bf, cycle, loop, writers>>

SpecMatch == InitMatch /\ [][PromoteRecord]_vars

\* C34: a fetched point marked as an actual whose timestamp normalizes to
\* the instant of the stored forecast promotes it: the row stored at the
\* instant is then an actual with the fetched value
C34_MatchesNormalized ==
    last.op = "match" =>
       \A i \in 1..Len(last.data_points) :
          LET point == last.data_points[i]
          IN  (/\ "is_forecast" \in DOMAIN point
               /\ ~point.is_forecast
               /\ normalize_timestamp(point.timestamp)
                     = normalize_timestamp(last.timestamp_str))
              => \E r \in db[CARBON] :
                    /\ r.timestamp = normalize_timestamp(last.timestamp_str)
                    /\ r.is_forecast = 0
                    /\ r.value = point.value

----------------------------------------------------------------------------
(* Properties of the duplicate check of the detector *)

\* C35: when two rows of the series inside the detection window normalize
\* to the same instant, the detection reports that instant among its
\* duplicates, and it leaves every stored row as it was
C35_DuplicatesSurfaced ==
    (last.op = "detect" /\ last.path = "ok") =>
        \A r \in RowsInRange(db[series], last.from, last.to) :
        \A o \in RowsInRange(db[series], last.from, last.to) :
           (o # r /\ normalize_timestamp(o.timestamp) = normalize_timestamp(r.timestamp))
              => \E ts \in last.duplicates :
                    normalize_timestamp(ts) = normalize_timestamp(r.timestamp)

----------------------------------------------------------------------------
(* A gap-filling pass that stops between two writes: src/app/main.py,
   fill_data_gaps and fill_generation_gaps.  Every write opens its own
   connection and commits (src/app/database.py, lines 102-129 and
   287-319), so what the writes before the stop stored stays stored. *)

\* The grid of the outage: the samples at both ends are stored, the three
\* between them may be missing
CrashInstants == {0, 30, 60, 90, 120}

InitCrash ==
    /\ series \in Tables
    /\ \E inner \in SUBSET {30, 60, 90} :
       \E fmt \in [{0, 120} \cup inner -> ExistingFormats] :
          db = [t \in Tables |->
                  IF t = series
                     THEN {IF t = CARBON THEN CarbonRow(Stamp(m, fmt[m]), 100, 0)
                           ELSE GenerationRow(Stamp(m, fmt[m]), 1)
                           : m \in {0, 120} \cup inner}
                     ELSE {}]
    /\ last = [op |-> "init"]
    /\ now = 120
    /\ bf = BfIdle
    /\ cycle = NoCycle
    /\ loop = NoLoop
    /\ writers = NoWriters

\* The pass stops in its j-th range after k writes of that range's points:
\* the ranges before it were filled, the later points are never written
FillGapsCrash ==
    /\ last.op = "init"
    /\ LET gap_ranges == gap_ranges_of(db[series], 30)
       IN  \E j \in 1..Len(gap_ranges) :
              LET done == FillRanges(series, db[series], SubSeq(gap_ranges, 1, j - 1), 1,
                                     [i \in 1..(j - 1) |-> "samples"], {}, 0, <<>>)
                  data_points == fetch_points(series, gap_ranges[j][1], gap_ranges[j][2],
                                              "samples")
              IN  \E k \in 0..Len(data_points) :
                     LET stored == InsertPoints(series, done.rows,
                                                SubSeq(data_points, 1, k), 1, 0, {}, <<>>)
                     IN  /\ db' = [db EXCEPT ![series] = stored.rows]
                         /\ last' = [op |-> "fill_crash", before |-> db[series],
                                     calls |-> done.calls,
                                     written |-> SubSeq(data_points, 1, k),
                                     pending |-> SubSeq(data_points, k + 1,
                                                        Len(data_points))]
    /\ UNCHANGED <<series, now, bf, cycle, loop, writers>>

\* The gap detection of the next pass, as fill_data_gaps calls it
DetectAfterCrash ==
    /\ last.op = "fill_crash"
    /\ LET d == detect_data_gaps(db[series], 30, None, None)
       IN  last' = [op |-> "redetect", before |-> last.before, calls |-> last.calls,
                    written |-> last.written, pending |-> last.pending,
                    ret |-> d.ret, path |-> d.path, from |-> d.from, to |-> d.to]
    /\ UNCHANGED <<series, db, now, bf, cycle, loop, writers>>

NextCrash == FillGapsCrash \/ DetectAfterCrash

SpecCrash == InitCrash /\ [][NextCrash]_vars

\* The instants of the points written before the stop
WrittenInstants ==
    {InstantOf(last.written[i].timestamp) : i \in 1..Len(last.written)}
       \cup UNION {{InstantOf(last.calls[c].points[i].timestamp) :
                        i \in 1..Len(last.calls[c].points)} : c \in 1..Len(last.calls)}

\* The instants a gap list reports as missing on the grid of the outage
ReportedMissing(gaps) ==
    {m \in CrashInstants : \E i \in 1..Len(gaps) : gaps[i][1] <= m /\ m <= gaps[i][2]}

\* C36: after a pass that stopped between two writes, the samples written
\* before the stop are stored and nothing else changed, and the next gap
\* detection reports exactly the expected instants that hold no sample
C36_PartialFillRediscovered ==
    (last.op = "redetect" /\ last.path = "ok") =>
        /\ StoredInstants(db[series]) = StoredInstants(last.before) \cup WrittenInstants
        /\ \A r \in last.before : InstantOf(r.timestamp) \notin WrittenInstants => r \in db[series]
        /\ ReportedMissing(last.ret)
              = ExpectedInstants(last.from, last.to, 30) \ StoredInstants(db[series])

\* C37: one pass of gap filling issues one fetch per consolidated range,
\* in ascending order of range start, so never more fetches than the
\* detection returned gaps, and a fetch that fails does not stop the
\* fetches of the later ranges
C37_OneFetchPerRange ==
    Filled =>
       LET gaps == detect_data_gaps(last.before, 30, None, None).ret
           gap_ranges == gap_ranges_of(last.before, 30)
       IN  /\ Len(last.calls) = Len(gap_ranges)
           /\ Len(last.calls) <= Len(gaps)
           /\ \A k \in 1..Len(last.calls) :
                 /\ last.calls[k].start_time = gap_ranges[k][1]
                 /\ last.calls[k].end_time = gap_ranges[k][2]
           /\ \A k \in 2..Len(last.calls) :
                 last.calls[k - 1].start_time < last.calls[k].start_time

\* The first fetch of a pass over three outages failed and the fetch of
\* the last one brought a sample that was stored
C37_Witness ==
    /\ Filled
    /\ Len(last.calls) >= 3
    /\ last.calls[1].answer = "http_error"
    /\ last.calls[1].points = <<>>
    /\ last.calls[Len(last.calls)].inserted_count > 0
    /\ last.total_filled > 0

----------------------------------------------------------------------------
(* The schedule of the main loop: src/app/main.py, should_run_... (lines
   64-102) and main_loop (lines 643-692); the intervals of
   src/app/config.py, in seconds *)

CARBON_INTENSITY_COLLECTION_INTERVAL == 60
ELEXON_BM_REPORTS_COLLECTION_INTERVAL == 3600
HEALTH_CHECK_INTERVAL == 300
MAIN_LOOP_INTERVAL == 10
BACKFILL_INTERVAL == 60
FORECAST_UPDATE_INTERVAL == 3600

\* should_run_...: a task that has not run is due, another one is due once
\* its interval has passed
should_run(last_run, time, interval) ==
    IF last_run = None THEN TRUE ELSE time - last_run >= interval

\* The interval of the collection of a series
collection_interval(table_name) ==
    IF table_name = CARBON THEN CARBON_INTENSITY_COLLECTION_INTERVAL
    ELSE ELEXON_BM_REPORTS_COLLECTION_INTERVAL

\* A loop that marks the collection as run whatever its outcome
mark_collection_always(success, time, last_collection) == time

\* if success: self.last_..._collection = time.time()
mark_collection(success, time, last_collection) ==
    IF success THEN time ELSE last_collection

\* Whether the task the loop is at is due
TaskDue ==
    CASE loop.pc = "collect" ->
            should_run(loop.last_collection, loop.time, collection_interval(series))
      [] loop.pc = "health" ->
            should_run(loop.last_health_check, loop.time, HEALTH_CHECK_INTERVAL)
      [] loop.pc = "backfill" ->
            should_run(loop.last_backfill, loop.time, BACKFILL_INTERVAL)
      [] loop.pc = "forecast" ->
            should_run(loop.last_forecast_update, loop.time, FORECAST_UPDATE_INTERVAL)
      [] OTHER -> FALSE

\* The task is not due: the loop goes on to the next one
ScheduleSkip ==
    /\ loop.pc \in {"collect", "health", "backfill", "forecast"}
    /\ bf.pc = "idle"
    /\ ~TaskDue
    /\ loop' = [loop EXCEPT !.pc = NextTask(@)]
    /\ UNCHANGED <<series, db, last, now, bf, cycle, writers>>

\* lines 646-660: the collection of the series, marked as run on success
ScheduleCollect ==
    /\ loop.pc = "collect"
    /\ TaskDue
    /\ CollectOf({"samples", "nothing"})
    /\ loop' = [loop EXCEPT
                  !.pc = NextTask(@),
                  !.last_collection = mark_collection(last'.ret, loop.time, @),
                  !.outcome = IF last'.ret THEN "success" ELSE "failed"]

\* lines 662-668: the health check, marked as run whatever its outcome
ScheduleHealthCheck ==
    /\ loop.pc = "health"
    /\ TaskDue
    /\ FillGapsOf({"samples", "nothing"})
    /\ loop' = [loop EXCEPT !.pc = NextTask(@), !.last_health_check = loop.time]

\* lines 670-676: the backfill
ScheduleBackfill ==
    /\ loop.pc = "backfill"
    /\ bf.pc = "idle"
    /\ TaskDue
    /\ BackfillStatsOf(EngineConfigs)

ScheduleBackfillCall ==
    /\ loop.pc = "backfill"
    /\ BackfillCallOf({{}})

ScheduleBackfillReturn ==
    /\ loop.pc = "backfill"
    /\ bf.pc = "done"
    /\ bf' = BfIdle
    /\ loop' = [loop EXCEPT !.pc = NextTask(@), !.last_backfill = loop.time]
    /\ UNCHANGED <<series, db, last, now, cycle, writers>>

\* lines 678-684: the forecast update, which works on the carbon-intensity
\* table; with no forecast stored there it returns at line 546
ScheduleForecastUpdate ==
    /\ loop.pc = "forecast"
    /\ TaskDue
    /\ IF series = CARBON THEN ForecastUpdateOf
       ELSE UNCHANGED <<series, db, last, now, bf, cycle, writers>>
    /\ loop' = [loop EXCEPT !.pc = NextTask(@), !.last_forecast_update = loop.time]

\* The seconds from one pass to the next: the sleep, and what the tasks of
\* the pass took
Elapsed == {MAIN_LOOP_INTERVAL, MAIN_LOOP_INTERVAL + CARBON_INTENSITY_COLLECTION_INTERVAL}

\* line 687: time.sleep(MAIN_LOOP_INTERVAL), then the next pass
ScheduleSleep ==
    /\ loop.pc = "sleep"
    /\ loop.ticks + 1 < MaxPasses
    /\ \E seconds \in Elapsed :
          /\ loop' = [loop EXCEPT !.pc = "collect", !.ticks = @ + 1,
                                  !.time = @ + seconds,
                                  !.previous = loop.outcome, !.outcome = "none"]
          /\ now' = (loop.time + seconds) \div 60
    /\ UNCHANGED <<series, db, last, bf, cycle, writers>>

\* GridTracker.__init__: no task has run; the tables are new or hold the
\* samples of the grid
InitSchedule ==
    /\ series \in Tables
    /\ \E present \in {{}, Instants} :
          db = [t \in Tables |->
                  IF t = series
                     THEN {IF t = CARBON
                              THEN CarbonRow(format_timestamp(m), 100, 0)
                              ELSE GenerationRow(format_timestamp(m), 1) : m \in present}
                     ELSE {}]
    /\ last = [op |-> "init"]
    /\ now = 90
    /\ bf = BfIdle
    /\ cycle = NoCycle
    /\ loop = [pc |-> "collect", ticks |-> 0, time |-> 90 * 60,
               last_collection |-> None, last_health_check |-> None,
               last_backfill |-> None, last_forecast_update |-> None,
               outcome |-> "none", previous |-> "none"]
    /\ writers = NoWriters

NextSchedule ==
    \/ ScheduleSkip
    \/ ScheduleCollect
    \/ ScheduleHealthCheck
    \/ ScheduleBackfill
    \/ BackfillPlan
    \/ ScheduleBackfillCall
    \/ ScheduleBackfillReturn
    \/ ScheduleForecastUpdate
    \/ ScheduleSleep

SpecSchedule == InitSchedule /\ [][NextSchedule]_vars

\* C38: a collection that fails leaves its last-collection time as it was
\* and is due again in the very next pass; the time is set only by a
\* collection that succeeds; in the first pass every task is due
C38_FailedCollectionRetried ==
    [][/\ (loop.pc = "collect" /\ loop'.outcome = "failed")
            => loop'.last_collection = loop.last_collection
       /\ loop'.last_collection # loop.last_collection
            => (/\ loop.pc = "collect"
                /\ loop'.outcome = "success"
                /\ last'.op = "collect" /\ last'.ret
                /\ loop'.last_collection = loop.time)
       /\ (loop'.pc = "collect" /\ loop'.previous = "failed")
            => should_run(loop'.last_collection, loop'.time, collection_interval(series))
       /\ (loop.ticks = 0 /\ loop.pc \in {"collect", "health", "backfill", "forecast"})
            => TaskDue]_vars

\* A collection that had succeeded earlier failed in the second pass, and
\* the third pass ran it again
C38_Witness ==
    /\ loop.ticks = 2
    /\ loop.pc = "health"
    /\ loop.previous = "failed"
    /\ loop.outcome # "none"
    /\ loop.last_collection # None
    /\ last.op = "collect"

----------------------------------------------------------------------------
(* The interpolator running next to the collector: the loop of
   interpolate_table_gaps (src/interpolate_single_gaps.py, lines 353-390)
   taken one gap at a time, each lookup and insert on its own connection,
   while the collector writes to the same table *)

\* What the table holds when the interpolator starts: no sample, or a sample
\* in one of the two stored spellings, at each half hour
InitRace ==
    /\ InitInterpolate
    /\ \A r \in db[series] : r.is_forecast = 0

\* lines 353-359: single_gaps = self.find_single_point_gaps(...)
InterpolateFind ==
    /\ loop = NoLoop
    /\ \E up \in BOOLEAN :
          loop' = [pc |-> "gaps", ticks |-> 0,
                   single_gaps |-> find_single_point_gaps(db[series], GroupingMinutes),
                   i |-> 1, filled_count |-> 0, up |-> up]
    /\ last' = [op |-> "find_single_point_gaps", table |-> series]
    /\ UNCHANGED <<series, db, now, bf, cycle, writers>>

\* lines 361-390: one pass of the loop over single_gaps
InterpolateGap ==
    /\ loop.pc = "gaps"
    /\ loop.i <= Len(loop.single_gaps)
    /\ LET gap_start == loop.single_gaps[loop.i][1]
           around == get_surrounding_data(db[series], gap_start, GroupingMinutes)
           r == FillSingleGaps(series, db[series], <<loop.single_gaps[loop.i]>>, 1,
                               GroupingMinutes, loop.up, loop.filled_count, <<>>)
       IN  /\ db' = [db EXCEPT ![series] = r.rows]
           /\ loop' = [loop EXCEPT !.i = @ + 1, !.filled_count = r.filled_count]
           /\ last' = [op |-> "interpolate_gap", table |-> series,
                       gap_start |-> gap_start, before |-> db[series],
                       inserted |-> around.before # {} /\ around.after # {},
                       ret |-> r.filled_count > loop.filled_count]
    /\ UNCHANGED <<series, now, bf, cycle, writers>>

\* The collector storing a sample of the grid while the interpolator runs
RaceCollect ==
    /\ loop.pc = "gaps"
    /\ loop.i <= Len(loop.single_gaps)
    /\ \/ InsertCarbonOf({format_timestamp(m) : m \in InterpolateInstants}, {200}, {FALSE})
       \/ InsertGenerationOf({format_timestamp(m) : m \in InterpolateInstants}, {2})

NextRace == InterpolateFind \/ InterpolateGap \/ RaceCollect

SpecRace == InitRace /\ [][NextRace]_vars

\* C39: when insert_interpolated_data runs for an instant that already
\* holds a sample, it reports failure, the table is left as it was and the
\* gap is not counted as filled
C39_NeverOverwrites ==
    [][(/\ last'.op = "interpolate_gap"
        /\ last'.inserted
        /\ RowsAt(db[series], last'.gap_start) # {})
          => (/\ ~last'.ret
              /\ db' = db
              /\ loop'.filled_count = loop.filled_count)]_vars

----------------------------------------------------------------------------
(* The migrations of generation_30min_data: src/run_all_migrations.py,
   src/migrate_deduplicate_and_unique.py, src/migrate_add_timestamp_sql.py.
   A row of the table is taken with its id, timestamp, created_at and
   timestamp_sql (None for NULL) *)

\* iso8601_to_sql_datetime of a text ending in Z: 'YYYY-MM-DD HH:MM:SS'
iso8601_to_sql_datetime(ts) == parse_timestamp(ts)

\* lines 25-26: sorted(group, key=(created_at or '', id))[-1]
to_keep(group) ==
    CHOOSE r \in group :
        \A o \in group : \/ o.created_at < r.created_at
                         \/ o.created_at = r.created_at /\ o.id <= r.id

\* lines 12-29: of the rows that share a normalized timestamp, the most
\* recent is kept
delete_normalization_conflicts(rows) ==
    {r \in rows :
        r = to_keep({o \in rows : normalize_timestamp(o.timestamp)
                                    = normalize_timestamp(r.timestamp)})}

\* lines 33-40: UPDATE ... SET timestamp = normalize_timestamp(timestamp)
normalize_rows(rows) ==
    {[r EXCEPT !.timestamp = normalize_timestamp(@)] : r \in rows}

\* lines 60-67: DELETE ... WHERE rowid NOT IN (SELECT MIN(rowid) ... GROUP
\* BY timestamp)
delete_duplicate_timestamp(rows) ==
    {r \in rows : \A o \in rows : o.timestamp = r.timestamp => r.id <= o.id}

\* lines 78-85: the same with GROUP BY timestamp_sql; the rows whose
\* timestamp_sql is NULL make one group
delete_duplicate_timestamp_sql(rows) ==
    {r \in rows : \A o \in rows : o.timestamp_sql = r.timestamp_sql => r.id <= o.id}

\* deduplicate_and_add_unique; the statement of line 71 raises when the
\* table has no timestamp_sql column, and nothing is committed
deduplicate_and_add_unique(rows, has_timestamp_sql) ==
    LET normalized == normalize_rows(delete_normalization_conflicts(rows))
        on_timestamp == delete_duplicate_timestamp(normalized)
        on_timestamp_sql == delete_duplicate_timestamp_sql(on_timestamp)
    IN  IF has_timestamp_sql
           THEN [rows |-> on_timestamp_sql, raised |-> FALSE]
           ELSE [rows |-> rows, raised |-> TRUE]

\* migrate_add_timestamp_sql_column, lines 27-41: the rows without a
\* timestamp_sql get the one of their timestamp
migrate_add_timestamp_sql_column(rows) ==
    {IF r.timestamp_sql = None
        THEN [r EXCEPT !.timestamp_sql = iso8601_to_sql_datetime(r.timestamp)]
        ELSE r : r \in rows}

MigrateInstants == {0, 30}

MigrateStamps == {Stamp(m, f) : m \in MigrateInstants, f \in ExistingFormats}

CreatedAts == {None, 1, 2}

\* The table before run_all_migrations: its rows in the order of their
\* ids, each timestamp text stored once; with the timestamp_sql column, a
\* row has its timestamp_sql or was written after the column was filled
InitMigrate ==
    /\ series = GENERATION
    /\ \E n \in 0..MaxMigrateRows, has_timestamp_sql \in BOOLEAN :
       \E stamps \in [1..n -> MigrateStamps], created \in [1..n -> CreatedAts],
          filled \in [1..n -> BOOLEAN] :
          /\ \A i, j \in 1..n : stamps[i] = stamps[j] => i = j
          /\ \A i \in 1..n : filled[i] => has_timestamp_sql
          /\ db = [t \in Tables |->
                     IF t = GENERATION
                        THEN {[id |-> i, timestamp |-> stamps[i],
                               created_at |-> created[i],
                               timestamp_sql |-> IF filled[i]
                                                    THEN iso8601_to_sql_datetime(stamps[i])
                                                    ELSE None] : i \in 1..n}
                        ELSE {}]
          /\ loop = [pc |-> "deduplicate", ticks |-> 0,
                     has_timestamp_sql |-> has_timestamp_sql]
    /\ last = [op |-> "init"]
    /\ now = 0
    /\ bf = BfIdle
    /\ cycle = NoCycle
    /\ writers = NoWriters

\* run_all_migrations.py line 17; a migration that raises ends the script
Deduplicate ==
    /\ loop.pc = "deduplicate"
    /\ LET r == deduplicate_and_add_unique(db[GENERATION], loop.has_timestamp_sql)
       IN  /\ db' = [db EXCEPT ![GENERATION] = r.rows]
           /\ last' = [op |-> "deduplicate", before |-> db[GENERATION],
                       raised |-> r.raised]
           /\ loop' = [loop EXCEPT !.pc = IF r.raised THEN "exit" ELSE "add_timestamp_sql"]
    /\ UNCHANGED <<series, now, bf, cycle, writers>>

\* run_all_migrations.py line 18
AddTimestampSql ==
    /\ loop.pc = "add_timestamp_sql"
    /\ db' = [db EXCEPT ![GENERATION] = migrate_add_timestamp_sql_column(@)]
    /\ last' = [op |-> "add_timestamp_sql", before |-> db[GENERATION]]
    /\ loop' = [loop EXCEPT !.pc = "done", !.has_timestamp_sql = TRUE]
    /\ UNCHANGED <<series, now, bf, cycle, writers>>

NextMigrate == Deduplicate \/ AddTimestampSql

SpecMigrate == InitMigrate /\ [][NextMigrate]_vars

\* C40: the deduplication deletes only rows that share their normalized
\* timestamp with another row, and every normalized timestamp stored
\* before it is stored exactly once after it, whether or not the rows have
\* their timestamp_sql
C40_DeduplicationKeepsInstants ==
    last.op = "deduplicate" =>
        /\ \A r \in last.before :
              (\A o \in db[GENERATION] : o.id # r.id)
                 => \E o \in last.before :
                       /\ o.id # r.id
                       /\ normalize_timestamp(o.timestamp) = normalize_timestamp(r.timestamp)
        /\ \A r \in last.before :
              Cardinality({o \in db[GENERATION] :
                             normalize_timestamp(o.timestamp)
                               = normalize_timestamp(r.timestamp)}) = 1

====
